---- MODULE Spec2Model ----
(***************************************************************************)
(* Model of the illustrated PDF builder of the "My selection" page         *)
(* (src/pages/My_Selection.py, build_pdf_buffer and its "Prepare PDF"      *)
(* button), and of the buttons of that page that change the selection,     *)
(* the notes and the comparison checkboxes.                                *)
(*                                                                         *)
(* Lengths are kept exact.  reportlab's A4 page is 210 mm x 297 mm with    *)
(* 1 mm = 72/25.4 pt, so the page height is 106920/127 pt.  Every vertical *)
(* position of the model is therefore an integer number of 1/127 pt:       *)
(* a source length of n pt is n * U here.                                  *)
(*                                                                         *)
(* A text is a sequence of chunks as textwrap splits it: n > 0 is a word   *)
(* of n characters, n < 0 is a run of -n whitespace characters; two words  *)
(* that follow each other are the pieces of a word with a hyphen.          *)
(***************************************************************************)
EXTENDS Integers, Sequences, FiniteSets, TLC

\* ------------------------------------------------------------------ bounds

\* longest favorites dict of a modelled session
MaxRecords == 2
\* latest minute datetime.now() can return
MaxClock == 1
\* wrapped lines of the long commentary, the one that overflows a record page
LongLines == 28
\* wrapped lines of the long opening text and of the long title, which
\* overflow an Introduction page and a Contents page
FrontLines == 45
\* largest native width and height of the images whose fit is enumerated
MaxSide == 12
\* most chunks (words and runs of blanks) of the texts whose wrapping is
\* enumerated
MaxChunks == 3

\* ------------------------------------------------------- layout constants

\* model units per point (A4 = 297 mm = 106920/127 pt)
U == 127
\* page_width, page_height = A4
page_height == 106920
margin_top == page_height - 80 * U
margin_bottom == 60 * U
\* wrap(text, width=90)
wrap_width == 90
\* thumb_w, thumb_h = 170, 170
thumb_h == 170 * U

\* ------------------------------------------------------------------ texts

Abs(n) == IF n < 0 THEN -n ELSE n

RECURSIVE SumLen(_)
SumLen(s) == IF s = <<>> THEN 0 ELSE Abs(Head(s)) + SumLen(Tail(s))

RECURSIVE LStrip(_)
LStrip(s) == IF s # <<>> /\ Head(s) < 0 THEN LStrip(Tail(s)) ELSE s

RECURSIVE RStrip(_)
RStrip(s) ==
    IF s # <<>> /\ s[Len(s)] < 0 THEN RStrip(SubSeq(s, 1, Len(s) - 1)) ELSE s

\* a line that loses its last chunk whatever it is
DropLast(s) == SubSeq(s, 1, Len(s) - 1)

\* del cur_line[-1] when cur_line[-1].strip() == '': the last chunk of the
\* line is whitespace, or the empty piece _handle_long_word has appended
RStripOne(s) ==
    IF s # <<>> /\ s[Len(s)] <= 0 THEN SubSeq(s, 1, Len(s) - 1) ELSE s

\* str.strip()
Strip(s) == RStrip(LStrip(s))

\* TextWrapper._wrap_chunks, inner loop: take chunks while they fit the line
RECURSIVE FillLine(_, _, _)
FillLine(chunks, cur, len) ==
    IF chunks # <<>> /\ len + Abs(Head(chunks)) <= wrap_width
    THEN FillLine(Tail(chunks), Append(cur, Head(chunks)), len + Abs(Head(chunks)))
    ELSE <<cur, chunks>>

\* TextWrapper._handle_long_word without break_long_words: a chunk longer than
\* the width goes whole on a line of its own
HandleLongWordWhole(cur, chunks) ==
    IF cur = <<>> THEN <<<<Head(chunks)>>, Tail(chunks)>> ELSE <<cur, chunks>>

\* TextWrapper._handle_long_word with break_long_words: the chunk that is
\* longer than the width is cut to fill the space left on the line; on a
\* full line the piece cut off is empty (a chunk of 0 characters)
HandleLongWord(cur, chunks) ==
    LET c == Head(chunks)
        space_left == wrap_width - SumLen(cur)
        sign == IF c < 0 THEN -1 ELSE 1
    IN  IF Abs(c) > wrap_width
        THEN <<Append(cur, sign * space_left),
               <<sign * (Abs(c) - space_left)>> \o Tail(chunks)>>
        ELSE <<cur, chunks>>

\* TextWrapper._wrap_chunks (drop_whitespace, break_long_words, no indent)
RECURSIVE WrapChunks(_, _)
WrapChunks(chunks, lines) ==
    IF chunks = <<>> THEN lines
    ELSE LET start == IF Head(chunks) < 0 /\ lines # <<>> THEN Tail(chunks) ELSE chunks
             filled == FillLine(start, <<>>, 0)
             broken == IF filled[2] # <<>>
                       THEN HandleLongWord(filled[1], filled[2]) ELSE filled
             line == RStripOne(broken[1])
         IN  WrapChunks(broken[2], IF line # <<>> THEN Append(lines, line) ELSE lines)

\* textwrap.wrap(text, width=90)
wrap(text) == WrapChunks(text, <<>>)

\* n wrapped lines of prose: 2n words of 44 characters, single spaces
RECURSIVE Para(_)
Para(n) == IF n = 0 THEN <<>>
           ELSE IF n = 1 THEN <<44, -1, 44>>
           ELSE <<44, -1, 44, -1>> \o Para(n - 1)

\* a text of blanks only
Blank == <<-2>>

\* ---------------------------------------------------------------- records

\* marks a key that the artwork dict does not have
Absent == <<0>>

Untitled == <<8>>
UnknownArtist == <<7, -1, 6>>

\* objectNumber, its length, and what build_pdf_buffer reads of an artwork:
\* title, principalOrFirstMaker, whether a date, a web link and an image URL
\* are present
ArtA == [id |-> "A", idlen |-> 9, title |-> <<3, -1, 5, -1, 5>>,
         maker |-> <<9, -1, 3, -1, 4>>, date |-> TRUE, link |-> TRUE, img |-> TRUE]
ArtB == [id |-> "B", idlen |-> 8, title |-> Absent,
         maker |-> Absent, date |-> FALSE, link |-> FALSE, img |-> FALSE]
\* an artwork whose title alone fills more than a Contents page
ArtC == [id |-> "C", idlen |-> 10, title |-> Para(FrontLines),
         maker |-> <<6>>, date |-> TRUE, link |-> FALSE, img |-> FALSE]
ArtPool == {ArtA, ArtB, ArtC}

Ids == {a.id : a \in ArtPool}

\* favorites: a dict keeps insertion order and its keys are distinct
RECURSIVE FavLists(_)
FavLists(n) ==
    IF n = 0 THEN {<<>>}
    ELSE LET shorter == FavLists(n - 1)
         IN  shorter \cup
             {Append(f, a) : f \in {g \in shorter : Len(g) = n - 1},
                             a \in ArtPool}

Distinct(f) == \A i, j \in 1..Len(f) : i # j => f[i].id # f[j].id

FavPool == {f \in FavLists(MaxRecords) : Distinct(f)}

\* dict.get(key, default) of a dict modelled as a function on its keys
Get(d, key, default) == IF key \in DOMAIN d THEN d[key] ELSE default

\* ------------------------------------------------------------ input pools

Flags(cv, op, nt, cm) ==
    [include_cover |-> cv, include_opening_text |-> op,
     include_notes |-> nt, include_comments |-> cm]

\* every flag is off in one configuration and on in another, alone and together
FlagPool ==
    {Flags(TRUE, TRUE, TRUE, TRUE), Flags(FALSE, TRUE, TRUE, TRUE),
     Flags(TRUE, FALSE, TRUE, TRUE), Flags(TRUE, TRUE, FALSE, TRUE),
     Flags(TRUE, TRUE, TRUE, FALSE), Flags(FALSE, FALSE, FALSE, FALSE)}

EmptyDict == [x \in {} |-> <<>>]

\* artwork_comments: A has a commentary of n lines, B one of a single line
Comments(n) == [x \in {"A", "B"} |-> IF x = "A" THEN Para(n) ELSE Para(1)]

CommentsPool ==
    {EmptyDict, Comments(LongLines - 4), Comments(LongLines - 1), Comments(LongLines)}

NotesPool ==
    {EmptyDict,
     [x \in {"A", "B"} |-> IF x = "A" THEN Blank ELSE Para(1)],
     [x \in {"A", "B"} |-> IF x = "A" THEN Para(3) ELSE Para(1)]}

Meta(f, o, ac) ==
    [include_cover |-> f.include_cover,
     include_opening_text |-> f.include_opening_text,
     include_notes |-> f.include_notes,
     include_comments |-> f.include_comments,
     opening_text |-> o,
     artwork_comments |-> ac]

Has(f, a) == \E i \in 1..Len(f) : f[i] = a

\* the record pages: favorites A and B with every commentary and note of the
\* pools, a short or a blank opening text
RecordInputs ==
    {[favorites |-> f, notes |-> n, pdf_meta |-> Meta(fl, o, ac)] :
        f \in {g \in FavPool : ~Has(g, ArtC)}, n \in NotesPool,
        fl \in FlagPool, o \in {Blank, Para(2)}, ac \in CommentsPool}

\* the front matter: the long opening text and the artwork with the long title
FrontInputs ==
    {[favorites |-> f, notes |-> EmptyDict,
      pdf_meta |-> Meta(fl, Para(FrontLines), EmptyDict)] :
        f \in {g \in FavPool : Has(g, ArtC)}, fl \in FlagPool}

Inputs == RecordInputs \cup FrontInputs

\* what requests.get and ImageReader.getSize can give for an image URL:
\* an exception, or the native size (iw, ih)
ImgPool ==
    {[ok |-> FALSE, iw |-> 0, ih |-> 0],
     [ok |-> TRUE, iw |-> 2000, ih |-> 1000],
     [ok |-> TRUE, iw |-> 1000, ih |-> 2000],
     [ok |-> TRUE, iw |-> 0, ih |-> 100]}

\* ------------------------------------------------------------------ state

VARIABLES
    favorites,      \* st.session_state["favorites"], in insertion order
    notes,          \* st.session_state["notes"]
    pdf_meta,       \* st.session_state["pdf_meta"]
    reportlab,      \* REPORTLAB_AVAILABLE
    pdf_buffer,     \* st.session_state["pdf_buffer"]
    now,            \* the latest minute datetime.now() has returned
    pc,             \* where build_pdf_buffer (or its caller) stands
    c,              \* the canvas: every drawing operation so far, in order
    page,           \* the canvas's page number
    y,              \* y of the Introduction/Contents loops and of draw_text_block
    y_cursor,       \* y_cursor of the record loop
    idx,            \* idx of the Contents loop and of the record loop
    pending,        \* the wrapped lines the running for loop has not drawn yet
    blk,            \* title, text and cont_header of the running draw_text_block
    buf,            \* what build_pdf_buffer returned
    built,          \* history: the arguments of the latest build_pdf_buffer call
    prev,           \* history: arguments and result of the build before that one
    detail_art_id,  \* st.session_state["detail_art_id"]
    cmp,            \* st.session_state["cmp_from_sel_<id>"], for the ids that have the key
    clear_compare_flag,  \* st.session_state["clear_compare_flag"]
    clicked         \* the button whose click started the running script run

vars == <<favorites, notes, pdf_meta, reportlab, pdf_buffer, now, pc, c, page,
          y, y_cursor, idx, pending, blk, buf, built, prev,
          detail_art_id, cmp, clear_compare_flag, clicked>>

session == <<favorites, notes, pdf_meta, reportlab,
             detail_art_id, cmp, clear_compare_flag, clicked>>

\* detail_art_id is None
NoId == ""

\* no comparison checkbox has its key in the session state
NoKeys == [x \in {} |-> FALSE]

\* the run was started by no button: a rerun, or a change of another widget
NoClick == [w |-> "", o |-> ""]

\* a session in which the selection page has not been used
PageUnused ==
    /\ detail_art_id = NoId
    /\ cmp = NoKeys
    /\ clear_compare_flag = FALSE
    /\ clicked = NoClick

None == [ok |-> FALSE, doc |-> <<>>]

NoBlock == [title |-> "", text |-> <<>>, cont |-> ""]

NoBuild == [favorites |-> <<>>, notes |-> EmptyDict, flags |-> <<>>,
            opening_text |-> <<>>, artwork_comments |-> EmptyDict]

NoPrev == [seen |-> FALSE, args |-> NoBuild, buf |-> None]

total == Len(favorites)

\* one drawing operation: its kind k, the page p and height y it is drawn at,
\* and the variable parts of its text: an object number o, a number n, chunks t
Op(k, yy, o, n, t) == [k |-> k, p |-> page, y |-> yy, o |-> o, n |-> n, t |-> t]

\* draw_footer(), reading the clock as t
draw_footer(t) ==
    <<Op("footer_left", margin_bottom, "", total, <<>>),
      Op("footer_right", margin_bottom, "", 0, <<t>>)>>

\* c.showPage()
showPage == <<Op("showPage", 0, "", 0, <<>>)>>

\* what datetime.now() can return: time does not run backwards
Clock == now..MaxClock

Args ==
    [favorites |-> favorites, notes |-> notes,
     flags |-> <<pdf_meta.include_cover, pdf_meta.include_opening_text,
                 pdf_meta.include_notes, pdf_meta.include_comments>>,
     opening_text |-> pdf_meta.opening_text,
     artwork_comments |-> pdf_meta.artwork_comments]

Init ==
    /\ \E in \in Inputs :
         /\ favorites = in.favorites
         /\ notes = in.notes
         /\ pdf_meta = in.pdf_meta
    /\ reportlab \in BOOLEAN
    /\ pdf_buffer = None
    /\ now = 0
    /\ pc = "idle"
    /\ c = <<>>
    /\ page = 1
    /\ y = 0
    /\ y_cursor = 0
    /\ idx = 0
    /\ pending = <<>>
    /\ blk = NoBlock
    /\ buf = None
    /\ built = NoBuild
    /\ prev = NoPrev
    /\ PageUnused

\* ---------------------------------------------------------------- actions

\* a build that goes on drawing on the canvas of the build before it
EnterSameCanvas ==
    /\ built' = Args
    /\ c' = c
    /\ page' = page
    /\ idx' = 0
    /\ pending' = <<>>
    /\ blk' = NoBlock
    /\ buf' = None
    /\ pc' = IF ~reportlab \/ favorites = <<>> THEN "returned" ELSE "cover"
    /\ UNCHANGED <<session, pdf_buffer, now, y, y_cursor>>

\* a build that does not return early when there is no favorite
EnterUnguarded ==
    /\ built' = Args
    /\ c' = <<>>
    /\ page' = 1
    /\ idx' = 0
    /\ pending' = <<>>
    /\ blk' = NoBlock
    /\ buf' = None
    /\ pc' = IF ~reportlab THEN "returned" ELSE "cover"
    /\ UNCHANGED <<session, pdf_buffer, now, y, y_cursor>>

\* build_pdf_buffer(favorites, notes) is entered: without reportlab or with
\* no favorite it returns None at once, otherwise it opens an empty canvas
Enter ==
    /\ built' = Args
    /\ c' = <<>>
    /\ page' = 1
    /\ idx' = 0
    /\ pending' = <<>>
    /\ blk' = NoBlock
    /\ buf' = None
    /\ pc' = IF ~reportlab \/ favorites = <<>> THEN "returned" ELSE "cover"
    /\ UNCHANGED <<session, pdf_buffer, now, y, y_cursor>>

\* a cover page that is drawn whatever include_cover is
CoverAlways ==
    /\ pc = "cover"
    /\ pc' = "intro"
    /\ \E t1 \in Clock : \E t2 \in t1..MaxClock :
         /\ c' = c \o <<Op("cover_title", page_height - 180 * U, "", 0, <<>>),
                        Op("cover_generated", page_height - 220 * U, "", 0, <<t1>>),
                        Op("cover_count", page_height - 238 * U, "", total, <<>>)>>
                   \o draw_footer(t2) \o showPage
         /\ now' = t2
         /\ page' = page + 1
    /\ UNCHANGED <<session, pdf_buffer, y, y_cursor, idx, pending, blk, buf,
                   built, prev>>

\* the cover page
Cover ==
    /\ pc = "cover"
    /\ pc' = "intro"
    /\ IF pdf_meta.include_cover
       THEN \E t1 \in Clock : \E t2 \in t1..MaxClock :
              /\ c' = c \o <<Op("cover_title", page_height - 180 * U, "", 0, <<>>),
                             Op("cover_generated", page_height - 220 * U, "", 0, <<t1>>),
                             Op("cover_count", page_height - 238 * U, "", total, <<>>)>>
                        \o draw_footer(t2) \o showPage
              /\ now' = t2
              /\ page' = page + 1
       ELSE UNCHANGED <<c, now, page>>
    /\ UNCHANGED <<session, pdf_buffer, y, y_cursor, idx, pending, blk, buf,
                   built, prev>>

opening_text_cfg == Strip(pdf_meta.opening_text)

\* an Introduction that tests the opening text before it is stripped
IntroStartUnstripped ==
    /\ pc = "intro"
    /\ IF pdf_meta.include_opening_text /\ pdf_meta.opening_text # <<>>
       THEN /\ c' = Append(c, Op("Introduction", margin_top, "", 0, <<>>))
            /\ y' = margin_top - 35 * U
            /\ pending' = wrap(opening_text_cfg)
            /\ pc' = "intro_loop"
       ELSE /\ pc' = "contents"
            /\ UNCHANGED <<c, y, pending>>
    /\ UNCHANGED <<session, pdf_buffer, now, page, y_cursor, idx, blk, buf,
                   built, prev>>

\* the Introduction heading, when the opening text is enabled and not empty
IntroStart ==
    /\ pc = "intro"
    /\ IF pdf_meta.include_opening_text /\ opening_text_cfg # <<>>
       THEN /\ c' = Append(c, Op("Introduction", margin_top, "", 0, <<>>))
            /\ y' = margin_top - 35 * U
            /\ pending' = wrap(opening_text_cfg)
            /\ pc' = "intro_loop"
       ELSE /\ pc' = "contents"
            /\ UNCHANGED <<c, y, pending>>
    /\ UNCHANGED <<session, pdf_buffer, now, page, y_cursor, idx, blk, buf,
                   built, prev>>

\* a break only for a line that would be under the footer's baseline
SectionNeedsBreakLate(yy) == yy < margin_bottom

\* if y < margin_bottom + 20, in the Introduction and the Contents loops
SectionNeedsBreak(yy) == yy < margin_bottom + 20 * U

\* a page break that takes the line it was made for out of the loop
SectionBreakSkip(heading) ==
    /\ pending # <<>>
    /\ SectionNeedsBreak(y)
    /\ \E t \in Clock :
         /\ now' = t
         /\ c' = c \o draw_footer(t) \o showPage
                   \o <<[Op(heading, margin_top, "", 0, <<>>) EXCEPT !.p = page + 1]>>
    /\ page' = page + 1
    /\ y' = margin_top - 35 * U
    /\ pending' = Tail(pending)
    /\ UNCHANGED <<session, pdf_buffer, pc, y_cursor, idx, blk, buf, built, prev>>

\* a page break in a loop of Introduction or Contents lines: footer, new
\* page, the heading again
SectionBreak(heading) ==
    /\ pending # <<>>
    /\ SectionNeedsBreak(y)
    /\ \E t \in Clock :
         /\ now' = t
         /\ c' = c \o draw_footer(t) \o showPage
                   \o <<[Op(heading, margin_top, "", 0, <<>>) EXCEPT !.p = page + 1]>>
    /\ page' = page + 1
    /\ y' = margin_top - 35 * U
    /\ UNCHANGED <<session, pdf_buffer, pc, y_cursor, idx, pending, blk, buf,
                   built, prev>>

\* one line of a loop of Introduction or Contents lines
SectionLine(kind, o, n) ==
    /\ pending # <<>>
    /\ ~SectionNeedsBreak(y)
    /\ c' = Append(c, Op(kind, y, o, n, Head(pending)))
    /\ y' = y - 15 * U
    /\ pending' = Tail(pending)
    /\ UNCHANGED <<session, pdf_buffer, now, pc, page, y_cursor, idx, blk, buf,
                   built, prev>>

\* a page that is ended without its footer
SectionEndBare(next) ==
    /\ c' = c \o showPage
    /\ page' = page + 1
    /\ pc' = next
    /\ UNCHANGED now

\* the end of a section: footer and new page
SectionEnd(next) ==
    /\ \E t \in Clock :
         /\ now' = t
         /\ c' = c \o draw_footer(t) \o showPage
    /\ page' = page + 1
    /\ pc' = next

IntroBreak == pc = "intro_loop" /\ SectionBreak("Introduction (cont.)")

IntroLine == pc = "intro_loop" /\ SectionLine("intro_line", "", 0)

IntroEnd ==
    /\ pc = "intro_loop"
    /\ pending = <<>>
    /\ SectionEnd("contents")
    /\ UNCHANGED <<session, pdf_buffer, y, y_cursor, idx, pending, blk, buf,
                   built, prev>>

Title(art) == IF art.title = Absent THEN Untitled ELSE art.title

Maker(art) == IF art.maker = Absent THEN UnknownArtist ELSE art.maker

\* f"{idx}. {title} ‚Äî {maker} (ID: {obj_num})", for idx below 10: the
\* separator is the three characters the source file holds for a dash
contents_line(art) ==
    <<2, -1>> \o Title(art) \o <<-1, 3, -1>> \o Maker(art)
              \o <<-1, 4, -1, art.idlen + 1>>

ContentsStart ==
    /\ pc = "contents"
    /\ c' = Append(c, Op("Contents", margin_top, "", 0, <<>>))
    /\ y' = margin_top - 35 * U
    /\ idx' = IF total > 0 THEN 1 ELSE 0
    /\ pending' = IF total > 0 THEN wrap(contents_line(favorites[1])) ELSE <<>>
    /\ pc' = "contents_loop"
    /\ UNCHANGED <<session, pdf_buffer, now, page, y_cursor, blk, buf, built, prev>>

ContentsBreak == pc = "contents_loop" /\ SectionBreak("Contents (cont.)")

ContentsLine ==
    pc = "contents_loop" /\ SectionLine("contents_line", favorites[idx].id, idx)

\* a Contents loop that numbers the next entry but lists the favorite again
ContentsNextStale ==
    /\ pc = "contents_loop"
    /\ pending = <<>>
    /\ idx < total
    /\ idx' = idx + 1
    /\ pending' = wrap(contents_line(favorites[idx]))
    /\ UNCHANGED <<session, pdf_buffer, now, pc, c, page, y, y_cursor, blk, buf,
                   built, prev>>

\* the next favorite of the Contents loop
ContentsNext ==
    /\ pc = "contents_loop"
    /\ pending = <<>>
    /\ idx < total
    /\ idx' = idx + 1
    /\ pending' = wrap(contents_line(favorites[idx + 1]))
    /\ UNCHANGED <<session, pdf_buffer, now, pc, c, page, y, y_cursor, blk, buf,
                   built, prev>>

\* a record loop that starts at the last favorite
ContentsEndLast ==
    /\ pc = "contents_loop"
    /\ pending = <<>>
    /\ idx = total
    /\ SectionEnd(IF total > 0 THEN "record" ELSE "save")
    /\ idx' = total
    /\ UNCHANGED <<session, pdf_buffer, y, y_cursor, pending, blk, buf, built, prev>>

ContentsEnd ==
    /\ pc = "contents_loop"
    /\ pending = <<>>
    /\ idx = total
    /\ SectionEnd(IF total > 0 THEN "record" ELSE "save")
    /\ idx' = IF total > 0 THEN 1 ELSE 0
    /\ UNCHANGED <<session, pdf_buffer, y, y_cursor, pending, blk, buf, built, prev>>

\* ------------------------------------------------------------ record pages

Min(a, b) == IF a < b THEN a ELSE b

Max(a, b) == IF a < b THEN b ELSE a

\* ------------------------------------------------- Python float arithmetic

\* sys.float_info.mant_dig: a float is a 53-bit mantissa times a power of two
mant_dig == 53

\* large naturals are strings of digits of limb binary places each
limb == 15

Base == 2 ^ limb

Zeros(n) == [i \in 1..n |-> 0]

\* a string of binary digits, most significant first, without its leading zeros
StripZeros(bits) ==
    IF \A i \in 1..Len(bits) : bits[i] = 0 THEN <<>>
    ELSE LET first == CHOOSE i \in 1..Len(bits) :
                          bits[i] = 1 /\ \A j \in 1..(i - 1) : bits[j] = 0
         IN  SubSeq(bits, first, Len(bits))

\* the binary digits of a string of digits to the base Base
ToBits(limbs) ==
    StripZeros([i \in 1..(limb * Len(limbs)) |->
                  (limbs[(i - 1) \div limb + 1] \div 2 ^ (limb - 1 - ((i - 1) % limb))) % 2])

\* the value of at most 30 binary digits
RECURSIVE IntOf(_)
IntOf(bits) ==
    IF bits = <<>> THEN 0
    ELSE 2 * IntOf(SubSeq(bits, 1, Len(bits) - 1)) + bits[Len(bits)]

\* the digits to the base Base of a string of binary digits
ToLimbs(bits) ==
    LET n      == (Len(bits) + limb - 1) \div limb
        padded == Zeros(n * limb - Len(bits)) \o bits
    IN  [k \in 1..n |-> IntOf(SubSeq(padded, (k - 1) * limb + 1, k * limb))]

\* bits + 1
Increment(bits) ==
    IF \A i \in 1..Len(bits) : bits[i] = 1 THEN <<1>> \o Zeros(Len(bits))
    ELSE LET last == CHOOSE i \in 1..Len(bits) :
                         bits[i] = 0 /\ \A j \in (i + 1)..Len(bits) : bits[j] = 1
         IN  SubSeq(bits, 1, last - 1) \o <<1>> \o Zeros(Len(bits) - last)

\* round to nearest, ties to even: bits has no leading zero and at least
\* mant_dig digits and stands for bits * 2^e; more tells that nonzero digits
\* were already dropped below it
Round(bits, e, more) ==
    LET kept == SubSeq(bits, 1, mant_dig)
        rest == SubSeq(bits, mant_dig + 1, Len(bits))
        half == rest # <<>> /\ Head(rest) = 1
        low  == more \/ (rest # <<>> /\ StripZeros(Tail(rest)) # <<>>)
        up   == half /\ (low \/ kept[mant_dig] = 1)
        m    == IF up THEN Increment(kept) ELSE kept
        ex   == e + Len(rest)
    IN  IF Len(m) > mant_dig
        THEN [m |-> SubSeq(m, 1, mant_dig), e |-> ex + 1]
        ELSE [m |-> m, e |-> ex]

\* float(n) for a positive int below Base
Float(n) ==
    LET bits == ToBits(<<n>>)
    IN  [m |-> bits \o Zeros(mant_dig - Len(bits)), e |-> Len(bits) - mant_dig]

\* long division by b < Base: k more digits of the quotient after q
RECURSIVE DivStep(_, _, _, _)
DivStep(b, rem, q, k) ==
    IF k = 0 THEN [q |-> q, rem |-> rem]
    ELSE DivStep(b, (rem * Base) % b, Append(q, (rem * Base) \div b), k - 1)

\* a / b for positive ints below Base: the float nearest to the quotient
FDiv(a, b) ==
    LET d == DivStep(b, a % b, <<a \div b>>, 5)
    IN  Round(ToBits(d.q), -(5 * limb), d.rem # 0)

\* limbs * n for n < Base, digit by digit from the right
RECURSIVE MulStep(_, _, _, _)
MulStep(limbs, n, carry, out) ==
    IF limbs = <<>> THEN <<carry>> \o out
    ELSE LET t == limbs[Len(limbs)] * n + carry
         IN  MulStep(SubSeq(limbs, 1, Len(limbs) - 1), n, t \div Base,
                     <<t % Base>> \o out)

\* bits * n for a natural number n < Base
MulBits(bits, n) == ToBits(MulStep(ToLimbs(bits), n, 0, <<>>))

\* n * x for a positive int n < Base: the float nearest to the product
FMul(n, x) == Round(MulBits(x.m, n), x.e, FALSE)

\* a < b for digit strings without leading zeros
LessBits(a, b) ==
    IF Len(a) # Len(b) THEN Len(a) < Len(b)
    ELSE \E i \in 1..Len(a) : a[i] < b[i] /\ \A j \in 1..(i - 1) : a[j] = b[j]

\* a < b for positive floats
FLess(a, b) == IF a.e # b.e THEN a.e < b.e ELSE LessBits(a.m, b.m)

\* a min that gives the larger of the two
FMax(a, b) == IF FLess(b, a) THEN a ELSE b

\* min(a, b)
FMin(a, b) == IF FLess(b, a) THEN b ELSE a

\* the smallest multiple of 1 / U that is not below the positive float x,
\* for x below 2^30 / U
UnitsUp(x) ==
    LET bits == MulBits(x.m, U)
        cut  == Len(bits) + x.e
    IN  IF x.e >= 0 THEN IntOf(bits \o Zeros(x.e))
        ELSE IF cut <= 0 THEN 1
        ELSE IntOf(SubSeq(bits, 1, cut))
             + (IF StripZeros(SubSeq(bits, cut + 1, Len(bits))) # <<>> THEN 1 ELSE 0)

\* thumb_w, thumb_h = 170, 170, in points
thumb == 170

\* ratio = min(thumb_w / iw, thumb_h / ih)
\* draw_w, draw_h = iw * ratio, ih * ratio
fit(iw, ih) ==
    LET ratio == FMin(FDiv(thumb, iw), FDiv(thumb, ih))
    IN  [w |-> FMul(iw, ratio), h |-> FMul(ih, ratio)]

\* a float as a string of integers, as the canvas keeps it
Flat(x) == x.m \o <<x.e>>

Unflat(t) == [m |-> SubSeq(t, 1, mant_dig), e |-> t[mant_dig + 1]]

\* draw_w and draw_h on the grid of 1 / U points, rounded up
draw_w(iw, ih) == UnitsUp(fit(iw, ih).w)

draw_h(iw, ih) == UnitsUp(fit(iw, ih).h)

y_image_top == margin_top - 80 * U

\* the image is drawn unless there is no URL, the request or the decoding
\* raises, or the ratio divides by zero
ImageDrawn(art, img) == art.img /\ img.ok /\ img.iw # 0 /\ img.ih # 0

\* y_text after the metadata column
y_text_end(art) ==
    y_image_top - 18 * U - (IF art.date THEN 14 * U ELSE 0) - 14 * U
                - (IF art.link THEN 14 * U ELSE 0)

\* the metadata column: title, artist, date if any, object id, link if any
Metadata(art) ==
    LET y1 == y_image_top - 18 * U
        y2 == IF art.date THEN y1 - 14 * U ELSE y1
        y3 == y2 - 14 * U
    IN  <<Op("meta_title", y_image_top, art.id, 0, Title(art)),
          Op("Artist:", y1, art.id, 0, Maker(art))>>
        \o (IF art.date THEN <<Op("Date:", y2, art.id, 0, <<>>)>> ELSE <<>>)
        \o <<Op("Object ID:", y3, art.id, 0, <<>>)>>
        \o (IF art.link THEN <<Op("Link:", y3 - 14 * U, art.id, 0, <<>>)>> ELSE <<>>)

\* blocks that start below the image as drawn, not below its box
BlockTopFitted(art, img) ==
    Min(IF ImageDrawn(art, img) THEN y_image_top - draw_h(img.iw, img.ih) - 40 * U
                                ELSE y_text_end(art) - 28 * U,
        y_text_end(art) - 28 * U)

\* blocks that start at the higher of the two positions
BlockTopHigher(art, img) ==
    Max(IF ImageDrawn(art, img) THEN y_image_top - thumb_h - 40 * U
                                ELSE y_text_end(art) - 28 * U,
        y_text_end(art) - 28 * U)

\* blocks that start below the image box whether an image was drawn or not
BlockTopBelowBox(art, img) ==
    Min(y_image_top - thumb_h - 40 * U, y_text_end(art) - 28 * U)

\* y_cursor = (y_image_top - thumb_h - 40) if image_drawn else (y_text - 28)
\* y_cursor = min(y_cursor, y_text - 28)
BlockTop(art, img) ==
    Min(IF ImageDrawn(art, img) THEN y_image_top - thumb_h - 40 * U
                                ELSE y_text_end(art) - 28 * U,
        y_text_end(art) - 28 * U)

\* a record loop that walks the favorites backwards
RecordArtReversed(i) == favorites[total + 1 - i]

\* for idx, (obj_num, art) in enumerate(favorites.items(), start=1)
RecordArt(i) == favorites[i]

\* a record page whose image failure ends the page: no metadata, no block
RecordPageGivingUp(pool) ==
    /\ pc = "record"
    /\ LET art == RecordArt(idx)
       IN  \E img \in pool :
             LET image_drawn == ImageDrawn(art, img)
             IN  /\ c' = c \o <<Op("Rijksmuseum Selection", margin_top, "", 0, <<>>),
                                Op("Artwork", margin_top - 24 * U, art.id, idx, <<total>>)>>
                           \o (IF image_drawn
                               THEN <<Op("image", y_image_top - draw_h(img.iw, img.ih),
                                         art.id, 0,
                                         <<img.iw, img.ih>>
                                             \o Flat(fit(img.iw, img.ih).w)
                                             \o Flat(fit(img.iw, img.ih).h))>>
                                    \o Metadata(art)
                               ELSE IF art.img THEN <<>> ELSE Metadata(art))
                 /\ y_cursor' = BlockTop(art, img)
                 /\ pc' = IF art.img /\ ~image_drawn THEN "rec_end" ELSE "comment"
    /\ UNCHANGED <<session, pdf_buffer, now, page, y, idx, pending, blk, buf,
                   built, prev>>

\* the head of a record page: header, image, metadata column, y_cursor
RecordPageFrom(pool) ==
    /\ pc = "record"
    /\ LET art == RecordArt(idx)
       IN  \E img \in pool :
             LET image_drawn == ImageDrawn(art, img)
             IN  /\ c' = c \o <<Op("Rijksmuseum Selection", margin_top, "", 0, <<>>),
                                Op("Artwork", margin_top - 24 * U, art.id, idx, <<total>>)>>
                           \o (IF image_drawn
                               THEN <<Op("image", y_image_top - draw_h(img.iw, img.ih),
                                         art.id, 0,
                                         <<img.iw, img.ih>>
                                             \o Flat(fit(img.iw, img.ih).w)
                                             \o Flat(fit(img.iw, img.ih).h))>>
                               ELSE <<>>)
                           \o Metadata(art)
                 /\ y_cursor' = BlockTop(art, img)
    /\ pc' = "comment"
    /\ UNCHANGED <<session, pdf_buffer, now, page, y, idx, pending, blk, buf,
                   built, prev>>

RecordPage == RecordPageFrom(ImgPool)

\* a draw_text_block that does not return early on a blank text
EnterBlockUnchecked(title, text, cont_header, after) ==
    /\ pc' = "block_start"
    /\ blk' = [title |-> title, text |-> Strip(text), cont |-> cont_header]
    /\ y' = y_cursor
    /\ UNCHANGED y_cursor

\* draw_text_block(title, text, y_start, cont_header) is entered: blank text
\* returns y_start at once
EnterBlock(title, text, cont_header, after) ==
    IF Strip(text) = <<>>
    THEN /\ pc' = after
         /\ UNCHANGED <<y, y_cursor, blk>>
    ELSE /\ pc' = "block_start"
         /\ blk' = [title |-> title, text |-> Strip(text), cont |-> cont_header]
         /\ y' = y_cursor
         /\ UNCHANGED y_cursor

\* if include_comments_flag: y_cursor = draw_text_block("Commentary:", ...)
CommentaryCall ==
    /\ pc = "comment"
    /\ IF pdf_meta.include_comments
       THEN EnterBlock("Commentary:",
                       Get(pdf_meta.artwork_comments, RecordArt(idx).id, <<>>),
                       "Commentary (cont.)", "notes")
       ELSE /\ pc' = "notes"
            /\ UNCHANGED <<y, y_cursor, blk>>
    /\ UNCHANGED <<session, pdf_buffer, now, c, page, idx, pending, buf, built, prev>>

\* a notes block that is drawn whatever include_notes is
NotesCallAlways ==
    /\ pc = "notes"
    /\ EnterBlock("Research notes:",
                  Strip(Get(notes, RecordArt(idx).id, <<>>)),
                  "Notes (cont.)", "rec_end")
    /\ UNCHANGED <<session, pdf_buffer, now, c, page, idx, pending, buf, built, prev>>

\* if include_notes_flag: y_cursor = draw_text_block("Research notes:", ...)
NotesCall ==
    /\ pc = "notes"
    /\ IF pdf_meta.include_notes
       THEN EnterBlock("Research notes:",
                       Strip(Get(notes, RecordArt(idx).id, <<>>)),
                       "Notes (cont.)", "rec_end")
       ELSE /\ pc' = "rec_end"
            /\ UNCHANGED <<y, y_cursor, blk>>
    /\ UNCHANGED <<session, pdf_buffer, now, c, page, idx, pending, buf, built, prev>>

\* a break only when the next line would cross the bottom margin
NeedsBreakTight(yy) == yy - 14 * U < margin_bottom

\* if y < margin_bottom + 20, in draw_text_block
NeedsBreak(yy) == yy < margin_bottom + 20 * U

\* draw_text_block, a block that would start too low: footer, new page,
\* continuation header, and the block starts below it
BlockStartBreak ==
    /\ pc = "block_start"
    /\ y < margin_bottom + 40 * U
    /\ \E t \in Clock :
         /\ now' = t
         /\ c' = c \o draw_footer(t) \o showPage
                   \o <<[Op(blk.cont, margin_top, RecordArt(idx).id, 0, <<>>)
                           EXCEPT !.p = page + 1]>>
    /\ page' = page + 1
    /\ y' = margin_top - 30 * U
    /\ UNCHANGED <<session, pdf_buffer, pc, y_cursor, idx, pending, blk, buf,
                   built, prev>>

\* a block whose first line is 30 under its title
BlockTitleWide ==
    /\ pc = "block_start"
    /\ y >= margin_bottom + 40 * U
    /\ c' = Append(c, Op(blk.title, y, "", 0, <<>>))
    /\ y' = y - 30 * U
    /\ pending' = wrap(blk.text)
    /\ pc' = "block_loop"
    /\ UNCHANGED <<session, pdf_buffer, now, page, y_cursor, idx, blk, buf,
                   built, prev>>

\* draw_text_block, the title of the block
BlockTitle ==
    /\ pc = "block_start"
    /\ y >= margin_bottom + 40 * U
    /\ c' = Append(c, Op(blk.title, y, "", 0, <<>>))
    /\ y' = y - 18 * U
    /\ pending' = wrap(blk.text)
    /\ pc' = "block_loop"
    /\ UNCHANGED <<session, pdf_buffer, now, page, y_cursor, idx, blk, buf,
                   built, prev>>

\* a page break that draws the continuation header before it ends the page
BlockBreakHeaderFirst ==
    /\ pc = "block_loop"
    /\ pending # <<>>
    /\ NeedsBreak(y)
    /\ \E t \in Clock :
         /\ now' = t
         /\ c' = c \o <<Op(blk.cont, margin_top, RecordArt(idx).id, 0, <<>>)>>
                   \o draw_footer(t) \o showPage
    /\ page' = page + 1
    /\ y' = margin_top - 30 * U
    /\ UNCHANGED <<session, pdf_buffer, pc, y_cursor, idx, pending, blk, buf,
                   built, prev>>

\* a page break that keeps the distance the cursor had run below the limit
BlockBreakCarry ==
    /\ pc = "block_loop"
    /\ pending # <<>>
    /\ NeedsBreak(y)
    /\ \E t \in Clock :
         /\ now' = t
         /\ c' = c \o draw_footer(t) \o showPage
                   \o <<[Op(blk.cont, margin_top, RecordArt(idx).id, 0, <<>>)
                           EXCEPT !.p = page + 1]>>
    /\ page' = page + 1
    /\ y' = margin_top - 30 * U - (margin_bottom + 20 * U - y)
    /\ UNCHANGED <<session, pdf_buffer, pc, y_cursor, idx, pending, blk, buf,
                   built, prev>>

\* a page break that repeats the header of the commentary in every block
BlockBreakStaleHeader ==
    /\ pc = "block_loop"
    /\ pending # <<>>
    /\ NeedsBreak(y)
    /\ \E t \in Clock :
         /\ now' = t
         /\ c' = c \o draw_footer(t) \o showPage
                   \o <<[Op("Commentary (cont.)", margin_top, RecordArt(idx).id, 0, <<>>)
                           EXCEPT !.p = page + 1]>>
    /\ page' = page + 1
    /\ y' = margin_top - 30 * U
    /\ UNCHANGED <<session, pdf_buffer, pc, y_cursor, idx, pending, blk, buf,
                   built, prev>>

\* draw_text_block, a page break before a line: footer, new page,
\* continuation header
BlockBreak ==
    /\ pc = "block_loop"
    /\ pending # <<>>
    /\ NeedsBreak(y)
    /\ \E t \in Clock :
         /\ now' = t
         /\ c' = c \o draw_footer(t) \o showPage
                   \o <<[Op(blk.cont, margin_top, RecordArt(idx).id, 0, <<>>)
                           EXCEPT !.p = page + 1]>>
    /\ page' = page + 1
    /\ y' = margin_top - 30 * U
    /\ UNCHANGED <<session, pdf_buffer, pc, y_cursor, idx, pending, blk, buf,
                   built, prev>>

\* a block whose lines are as far apart as those of the Introduction
BlockLineTall ==
    /\ pc = "block_loop"
    /\ pending # <<>>
    /\ ~NeedsBreak(y)
    /\ c' = Append(c, Op("line", y, "", 0, Head(pending)))
    /\ y' = y - 15 * U
    /\ pending' = Tail(pending)
    /\ UNCHANGED <<session, pdf_buffer, now, pc, page, y_cursor, idx, blk, buf,
                   built, prev>>

\* draw_text_block, one wrapped line
BlockLine ==
    /\ pc = "block_loop"
    /\ pending # <<>>
    /\ ~NeedsBreak(y)
    /\ c' = Append(c, Op("line", y, "", 0, Head(pending)))
    /\ y' = y - 14 * U
    /\ pending' = Tail(pending)
    /\ UNCHANGED <<session, pdf_buffer, now, pc, page, y_cursor, idx, blk, buf,
                   built, prev>>

\* a caller that does not keep what draw_text_block returns
BlockReturnDropped ==
    /\ pc = "block_loop"
    /\ pending = <<>>
    /\ pc' = IF blk.title = "Commentary:" THEN "notes" ELSE "rec_end"
    /\ blk' = NoBlock
    /\ UNCHANGED <<session, pdf_buffer, now, c, page, y, y_cursor, idx, pending, buf,
                   built, prev>>

\* draw_text_block returns y, which becomes y_cursor
BlockReturn ==
    /\ pc = "block_loop"
    /\ pending = <<>>
    /\ y_cursor' = y
    /\ pc' = IF blk.title = "Commentary:" THEN "notes" ELSE "rec_end"
    /\ blk' = NoBlock
    /\ UNCHANGED <<session, pdf_buffer, now, c, page, y, idx, pending, buf,
                   built, prev>>

\* a record loop that is left after the first record page
RecordEndFirst ==
    /\ pc = "rec_end"
    /\ SectionEnd("save")
    /\ UNCHANGED <<session, pdf_buffer, y, y_cursor, idx, pending, blk, buf, built, prev>>

\* the end of a record page: footer and new page, then the next favorite
RecordEnd ==
    /\ pc = "rec_end"
    /\ SectionEnd(IF idx < total THEN "record" ELSE "save")
    /\ idx' = IF idx < total THEN idx + 1 ELSE idx
    /\ UNCHANGED <<session, pdf_buffer, y, y_cursor, pending, blk, buf, built, prev>>

\* c.save(); return pdf_buffer.getvalue()
Save ==
    /\ pc = "save"
    /\ buf' = [ok |-> TRUE, doc |-> c]
    /\ pc' = "returned"
    /\ UNCHANGED <<session, pdf_buffer, now, c, page, y, y_cursor, idx, pending,
                   blk, built, prev>>

\* the "Prepare PDF" handler after the call: if buf: session_state["pdf_buffer"] = buf
Store ==
    /\ pc = "returned"
    /\ pdf_buffer' = IF buf.ok THEN buf ELSE pdf_buffer
    /\ pc' = "done"
    /\ UNCHANGED <<session, now, c, page, y, y_cursor, idx, pending, blk, buf,
                   built, prev>>

\* one call of build_pdf_buffer with the arguments of the initial state
Build ==
    /\ pc = "idle"
    /\ Enter
    /\ UNCHANGED prev

Steps ==
    \/ Cover
    \/ IntroStart \/ IntroBreak \/ IntroLine \/ IntroEnd
    \/ ContentsStart \/ ContentsBreak \/ ContentsLine \/ ContentsNext \/ ContentsEnd
    \/ RecordPage \/ CommentaryCall \/ NotesCall
    \/ BlockStartBreak \/ BlockTitle \/ BlockBreak \/ BlockLine \/ BlockReturn
    \/ RecordEnd \/ Save \/ Store

Next == Build \/ Steps

Spec == Init /\ [][Next]_vars

\* ---------------------------------------------------------------- session

\* the page is at rest: no handler is running
AtRest == pc \in {"idle", "done"}

\* the "Prepare PDF" button of a page that shows a selection: the page stops
\* before the button when favorites is empty, and warns without reportlab
PreparePdf ==
    /\ AtRest
    /\ favorites # <<>>
    /\ reportlab
    /\ Enter
    /\ prev' = IF pc = "done"
               THEN [seen |-> TRUE, args |-> built, buf |-> buf]
               ELSE prev

\* the explorer page: "In my selection" is checked on the card of an artwork
AddFavorite ==
    /\ AtRest
    /\ Len(favorites) < MaxRecords
    /\ \E art \in ArtPool :
         /\ ~Has(favorites, art)
         /\ favorites' = Append(favorites, art)
    /\ UNCHANGED <<notes, pdf_meta, reportlab, pdf_buffer, now, pc, c, page, y,
                   y_cursor, idx, pending, blk, buf, built, prev,
                   detail_art_id, cmp, clear_compare_flag, clicked>>

\* the commentaries of a session: the one of A overflows its page when the
\* image is drawn, the one of C ends so low that the notes start a new page
SessionComments ==
    [x \in {"A", "C"} |-> IF x = "A" THEN Para(LongLines) ELSE Para(LongLines + 7)]

SessionNotes == [x \in {"A", "C"} |-> IF x = "A" THEN Para(3) ELSE Para(1)]

\* a session that starts with no favorite and either a long opening text
\* and no text block, or no opening text and both text blocks
SessionInit ==
    /\ favorites = <<>>
    /\ notes = SessionNotes
    /\ pdf_meta \in {Meta(Flags(TRUE, TRUE, FALSE, FALSE), Para(FrontLines),
                           SessionComments),
                      Meta(Flags(TRUE, FALSE, TRUE, TRUE), Blank, SessionComments)}
    /\ reportlab = TRUE
    /\ pdf_buffer = None
    /\ now = 0
    /\ pc = "idle"
    /\ c = <<>>
    /\ page = 1
    /\ y = 0
    /\ y_cursor = 0
    /\ idx = 0
    /\ pending = <<>>
    /\ blk = NoBlock
    /\ buf = None
    /\ built = NoBuild
    /\ prev = NoPrev
    /\ PageUnused

SessionNext == PreparePdf \/ AddFavorite \/ Steps

SessionSpec == SessionInit /\ [][SessionNext]_vars

\* ------------------------------------------------- reading the document

\* build_pdf_buffer has returned a document
Finished == pc = "returned" /\ buf.ok

\* the pages of the canvas that have been ended by showPage
Pages == 1..(page - 1)

\* the 1-based position of an object number in favorites
Pos(o) == CHOOSE k \in 1..total : favorites[k].id = o

CoverKinds == {"cover_title", "cover_generated", "cover_count"}

IntroKinds == {"Introduction", "Introduction (cont.)", "intro_line"}

ContentsKinds == {"Contents", "Contents (cont.)", "contents_line"}

ContKinds == {"Commentary (cont.)", "Notes (cont.)"}

\* the section an operation names: 0 cover, 1 Introduction, 2 Contents,
\* 2 + k the record at position k; -1 when the operation names none
Section(op) ==
    IF op.k \in CoverKinds THEN 0
    ELSE IF op.k \in IntroKinds THEN 1
    ELSE IF op.k \in ContentsKinds THEN 2
    ELSE IF op.o # "" THEN 2 + Pos(op.o)
    ELSE -1

SectionsOn(p) == {Section(c[i]) : i \in {j \in 1..Len(c) : c[j].p = p}} \ {-1}

SectionOf(p) == CHOOSE s \in SectionsOn(p) : TRUE

IntroEmitted == pdf_meta.include_opening_text /\ Strip(pdf_meta.opening_text) # <<>>

\* C1: a finished document is the cover page (if enabled), the Introduction
\* pages (if enabled and not empty), the Contents pages, then the pages of
\* record 1, record 2, ... in the order of favorites; every page belongs to one
\* section only, and the first page of record k is headed "Artwork k of N".
C1_PageOrder ==
    Finished =>
        /\ total > 0
        /\ \A i \in 1..(Len(c) - 1) : c[i].p <= c[i + 1].p
        /\ \A p \in Pages : Cardinality(SectionsOn(p)) = 1
        /\ \A p \in Pages : p > 1 => SectionOf(p - 1) <= SectionOf(p)
        /\ {SectionOf(p) : p \in Pages} =
              (IF pdf_meta.include_cover THEN {0} ELSE {})
              \cup (IF IntroEmitted THEN {1} ELSE {})
              \cup 2..(2 + total)
        /\ \A k \in 1..total :
              LET first == CHOOSE p \in Pages :
                              /\ SectionOf(p) = 2 + k
                              /\ (p = 1 \/ SectionOf(p - 1) # 2 + k)
              IN  \E i \in 1..Len(c) :
                     /\ c[i].p = first
                     /\ c[i].k = "Artwork"
                     /\ c[i].n = k
                     /\ c[i].o = favorites[k].id
                     /\ c[i].t = <<total>>

\* a finished document with a cover, an Introduction, two records, and a
\* record that runs over two pages
C1_Witness ==
    /\ Finished
    /\ pdf_meta.include_cover
    /\ IntroEmitted
    /\ total = 2
    /\ page - 1 > 5

\* the number of operations of kind k in a document
RECURSIVE Count(_, _)
Count(doc, kinds) ==
    IF doc = <<>> THEN 0
    ELSE (IF Head(doc).k \in kinds THEN 1 ELSE 0) + Count(Tail(doc), kinds)

\* a call of build_pdf_buffer that was given no favorite, with reportlab
EmptyBuild == pc # "idle" /\ built.favorites = <<>> /\ reportlab

\* C2 as stated: a build with zero records and include_cover = true produces
\* a document with exactly one cover page, no record page and no Contents
\* entry.
C2_Original ==
    (EmptyBuild /\ pdf_meta.include_cover /\ pc = "returned") =>
        /\ buf.ok
        /\ Count(buf.doc, {"cover_title"}) = 1
        /\ Count(buf.doc, {"Artwork"}) = 0
        /\ Count(buf.doc, {"contents_line"}) = 0

\* C2, amended: a build with zero records returns None whatever
\* include_cover is, and draws nothing: no cover page, no record page, no
\* Contents entry.
C2_NoDocument ==
    EmptyBuild =>
        /\ pc \in {"returned", "done"}
        /\ buf = None
        /\ c = <<>>
        /\ page = 1

\* build_pdf_buffer has returned from a call with no favorite and
\* include_cover = true
C2_Witness == EmptyBuild /\ pdf_meta.include_cover /\ pc = "returned"

\* draw_text_block is about to handle the next wrapped line
AtLine == pc = "block_loop" /\ pending # <<>>

\* C3 as stated: while a text block is rendered, a page break is taken before
\* a wrapped line if and only if y - 14 < margin_bottom, so that a line that
\* still fits above the bottom margin is drawn on the current page.
C3_Original ==
    [][AtLine => ((page' = page + 1) <=> (y - 14 * U < margin_bottom))]_vars

\* C3, amended: while a text block is rendered, a page break is taken before
\* a wrapped line if and only if y < margin_bottom + 20 (y < 80); a line is
\* drawn only at y >= 80, so a line at y = 74, which would end exactly on the
\* bottom margin, goes to the next page.
C3_BreakBelow80 ==
    [][AtLine => /\ (page' = page + 1) <=> (y < margin_bottom + 20 * U)
                 /\ (page' = page) <=> (c' = Append(c, Op("line", y, "", 0, Head(pending))))
                 /\ (page' = page) => y >= 80 * U]_vars

\* the operation before the footer, the page end and the continuation
\* header that were drawn last
BeforeBreak == c[Len(c) - 4]

\* a block has just been broken although its next line would have fitted
\* above the bottom margin: the line before the break is less than two
\* line heights above the limit of 74
C3_Witness ==
    /\ AtLine
    /\ Len(c) > 4
    /\ c[Len(c)].k \in ContKinds
    /\ BeforeBreak.k = "line"
    /\ BeforeBreak.y - 14 * U >= margin_bottom + 14 * U
    /\ y = margin_top - 30 * U

\* C4: whenever a commentary or notes block is split by a page break, the
\* footer of the current page, the new-page command and the continuation
\* header of the block at the top of the new page are drawn in this order,
\* directly after the last line of the old page, and the next line of the
\* block comes directly after the header: a line of a block follows either
\* the line above it, or the title of its block, or such a break.
C4_SplitOrder ==
    /\ \A i \in 1..Len(c) :
          c[i].k = "line" =>
             /\ i > 1
             /\ c[i - 1].p = c[i].p
             /\ \/ c[i - 1].k = "line" /\ c[i - 1].y = c[i].y + 14 * U
                \/ /\ c[i - 1].k \in {"Commentary:", "Research notes:"}
                   /\ c[i - 1].y = c[i].y + 18 * U
                \/ /\ c[i - 1].k \in ContKinds
                   /\ c[i].y = margin_top - 30 * U
                   /\ i > 5
                   /\ c[i - 5].k = "line"
    /\ \A i \in 1..Len(c) :
          c[i].k \in ContKinds =>
             /\ i > 3
             /\ c[i - 3].k = "footer_left"
             /\ c[i - 2].k = "footer_right"
             /\ c[i - 1].k = "showPage"
             /\ c[i - 3].p = c[i].p - 1
             /\ c[i - 2].p = c[i].p - 1
             /\ c[i - 1].p = c[i].p - 1
             /\ c[i].y = margin_top

\* a finished document in which a notes block of three lines was split: its
\* title and two lines end a page, the third line follows the continuation
\* header on the next page and is the last line of the record
C4_Witness ==
    /\ Finished
    /\ \E i \in 7..(Len(c) - 2) :
         /\ c[i].k = "Notes (cont.)"
         /\ c[i - 6].k = "Research notes:"
         /\ c[i - 5].k = "line"
         /\ c[i - 4].k = "line"
         /\ c[i - 5].p = c[i - 6].p
         /\ c[i + 1].k = "line"
         /\ c[i + 2].k = "footer_left"

\* the positions of the run that keep a cursor: the line loops and the
\* text blocks of a record
InLoop == pc \in {"intro_loop", "contents_loop", "block_start", "block_loop"}

HasCursor == InLoop \/ pc \in {"comment", "notes", "rec_end"}

Cursor == IF InLoop THEN y ELSE y_cursor

\* where a loop goes on after a page break: below the heading it repeats
TopOfPage ==
    IF pc \in {"intro_loop", "contents_loop"}
    THEN margin_top - 35 * U ELSE margin_top - 30 * U

\* C5: during a build every page break increments the page number by exactly
\* one; a break inside a loop resumes drawing at the top margin, where it
\* repeats the heading, and puts the cursor at the fixed position below it
\* (margin_top - 35 in Introduction and Contents, margin_top - 30 in a
\* block), wherever the cursor was; after the break that
\* ends a section the next section sets its cursor from the top margin alone
\* (Contents at margin_top - 35, a record at the foot of its image box or of
\* its metadata column); and while the page does not change the cursor never
\* moves upward.
C5_BreakAndCursor ==
    [][~AtRest =>
         /\ page' \in {page, page + 1}
         /\ page' - page = Count(SubSeq(c', Len(c) + 1, Len(c')), {"showPage"})
         /\ (page' # page /\ HasCursor') => (pc' = pc /\ InLoop /\ Cursor' = TopOfPage)
         /\ (page' # page /\ HasCursor') => c'[Len(c')].y = margin_top
         /\ pc = "contents" => y' = margin_top - 35 * U
         /\ pc = "record" =>
                y_cursor' \in {BlockTop(favorites[idx], img) : img \in ImgPool}
         /\ (page' = page /\ HasCursor /\ HasCursor') => Cursor' <= Cursor]_vars

\* a notes block has just been broken below its second line: the page
\* number is one more than that of the line before the break and the cursor
\* is back at margin_top - 30, from a cursor that was below 74
C5_Witness ==
    /\ pc = "block_loop"
    /\ Len(c) > 4
    /\ c[Len(c)].k = "Notes (cont.)"
    /\ BeforeBreak.k = "line"
    /\ BeforeBreak.y - 14 * U < margin_bottom + 14 * U
    /\ page = BeforeBreak.p + 1
    /\ y = TopOfPage

\* the texts draw_text_block is given for the record at position k
CommentOf(k) == Get(pdf_meta.artwork_comments, favorites[k].id, <<>>)

NoteOf(k) == Get(notes, favorites[k].id, <<>>)

\* draw_text_block is about to be called with a blank text
BlankCall ==
    \/ pc = "comment" /\ pdf_meta.include_comments /\ Strip(CommentOf(idx)) = <<>>
    \/ pc = "notes" /\ pdf_meta.include_notes /\ Strip(NoteOf(idx)) = <<>>

\* C9: draw_text_block called with an empty or whitespace-only text returns
\* at once: it draws nothing (no title, no footer, no page break, no
\* continuation header), reads no clock, and the caller's cursor is the one
\* it passed, also when that cursor is below margin_bottom + 40.
C9_BlankBlock ==
    [][BlankCall =>
         /\ c' = c
         /\ page' = page
         /\ now' = now
         /\ y_cursor' = y_cursor
         /\ pc' = IF pc = "comment" THEN "notes" ELSE "rec_end"]_vars

\* the notes block of a record was called with a whitespace-only note at
\* a cursor below margin_bottom + 40, after the last line of the commentary,
\* and has returned
C9_Witness ==
    /\ pc = "rec_end"
    /\ pdf_meta.include_notes
    /\ favorites[idx].id \in DOMAIN notes
    /\ NoteOf(idx) = Blank
    /\ y_cursor < margin_bottom + 40 * U
    /\ c[Len(c)].k = "line"

\* the record at position k gets no text block
NoBlocks(k) ==
    /\ ~pdf_meta.include_comments \/ Strip(CommentOf(k)) = <<>>
    /\ ~pdf_meta.include_notes \/ Strip(NoteOf(k)) = <<>>

PagesOfRecord(k) == {p \in Pages : SectionOf(p) = 2 + k}

KindsOn(p) == {c[i].k : i \in {j \in 1..Len(c) : c[j].p = p}}

\* what a record page without text blocks may carry
BareKinds ==
    {"Rijksmuseum Selection", "Artwork", "image", "meta_title", "Artist:",
     "Date:", "Object ID:", "Link:", "footer_left", "footer_right", "showPage"}

\* C10: in a finished document a record whose commentary and notes are both
\* blank, or disabled by include_comments and include_notes, has exactly one
\* page, which carries only the record header, the image if drawn, the
\* metadata column and the footer: no "Commentary:" or "Research notes:"
\* heading, no line, no continuation header.
C10_BareRecord ==
    Finished =>
        \A k \in 1..total :
            NoBlocks(k) =>
                /\ Cardinality(PagesOfRecord(k)) = 1
                /\ \A p \in PagesOfRecord(k) :
                      /\ KindsOn(p) \subseteq BareKinds
                      /\ {"Rijksmuseum Selection", "Artwork", "meta_title",
                          "Artist:", "Object ID:", "footer_left",
                          "footer_right", "showPage"} \subseteq KindsOn(p)

\* a finished document with both blocks enabled and a record whose image was
\* drawn, whose commentary is missing and whose note is whitespace only
C10_Witness ==
    /\ Finished
    /\ pdf_meta.include_comments
    /\ pdf_meta.include_notes
    /\ \E k \in 1..total :
         /\ NoBlocks(k)
         /\ favorites[k].id \in DOMAIN notes
         /\ NoteOf(k) = Blank
         /\ \A p \in PagesOfRecord(k) : "image" \in KindsOn(p)

\* ------------------------------------------------------- two builds

\* a document has been built after an earlier document of this session
Rebuilt == Finished /\ prev.seen /\ prev.buf.ok

\* both builds were given the same favorites, notes and pdf_meta
SameArgs == prev.args = built

PageCount(doc) == Count(doc, {"showPage"})

IsText(op) == op.k \notin {"image", "showPage"}

IsImage(op) == op.k = "image"

\* the kind, page and height of every text line of a document, in order
Placement(doc) ==
    LET texts == SelectSeq(doc, IsText)
    IN  [i \in 1..Len(texts) |-> <<texts[i].k, texts[i].p, texts[i].y>>]

\* the records whose image was drawn
DrawnImages(doc) == {doc[i].o : i \in {j \in 1..Len(doc) : IsImage(doc[j])}}

\* C6 as stated: two builds given identical favorites, notes and pdf_meta
\* yield the same page count and the same placement of every text line,
\* whatever the outcome of each record's image retrieval.
C6_Original ==
    (Rebuilt /\ SameArgs) =>
        /\ PageCount(c) = PageCount(prev.buf.doc)
        /\ Placement(c) = Placement(prev.buf.doc)

\* C6, amended: two builds given identical favorites, notes and pdf_meta, in
\* which the same records had their image drawn, yield the same page count
\* and the same placement of every text line: besides its arguments and the
\* layout constants the layout depends on whether each image was drawn (the
\* blocks start below the image box only then), and on nothing else.
C6_SameImagesSameLayout ==
    (Rebuilt /\ SameArgs /\ DrawnImages(c) = DrawnImages(prev.buf.doc)) =>
        /\ PageCount(c) = PageCount(prev.buf.doc)
        /\ Placement(c) = Placement(prev.buf.doc)

\* the same arguments were built twice with the same images drawn, at
\* different native sizes, and with a clock that moved
C6_Witness ==
    /\ Rebuilt
    /\ SameArgs
    /\ DrawnImages(c) = DrawnImages(prev.buf.doc)
    /\ DrawnImages(c) # {}
    /\ SelectSeq(c, IsImage) # SelectSeq(prev.buf.doc, IsImage)
    /\ c # prev.buf.doc
    /\ PageCount(c) > 3

\* a document without the minute its cover and its footers were generated at
Unstamped(doc) ==
    [i \in 1..Len(doc) |->
        IF doc[i].k \in {"footer_right", "cover_generated"}
        THEN [doc[i] EXCEPT !.t = <<>>] ELSE doc[i]]

\* C7 as stated: building the same records and configuration twice produces
\* an identical sequence of drawing operations with identical texts,
\* including the cover page and every page footer.
C7_Original == (Rebuilt /\ SameArgs) => c = prev.buf.doc

\* C7, amended: building the same records and configuration twice, with the
\* same outcome of every image retrieval, produces an identical sequence of
\* drawing operations with identical texts except for the "Generated on"
\* minute of the cover page and of every page footer, which is read from the
\* clock at each build.
C7_SameButStamps ==
    (Rebuilt /\ SameArgs /\ SelectSeq(c, IsImage) = SelectSeq(prev.buf.doc, IsImage)) =>
        Unstamped(c) = Unstamped(prev.buf.doc)

\* the same arguments were built twice with the same image outcomes, and the
\* two documents differ only in their time stamps
C7_Witness ==
    /\ Rebuilt
    /\ SameArgs
    /\ SelectSeq(c, IsImage) = SelectSeq(prev.buf.doc, IsImage)
    /\ pdf_meta.include_cover
    /\ c # prev.buf.doc

\* the build before this one had the same arguments but for the last favorite
Grown ==
    /\ prev.seen
    /\ Len(built.favorites) = Len(prev.args.favorites) + 1
    /\ SubSeq(built.favorites, 1, Len(prev.args.favorites)) = prev.args.favorites
    /\ built.notes = prev.args.notes
    /\ built.flags = prev.args.flags
    /\ built.opening_text = prev.args.opening_text
    /\ built.artwork_comments = prev.args.artwork_comments

Sides == (1..MaxSide) \cup {67, 1000, 2000}

SizePool == {[ok |-> TRUE, iw |-> a, ih |-> b] : a \in Sides, b \in Sides}

\* one favorite with an image URL, no cover, no Introduction, no text block
FitInit ==
    /\ favorites = <<ArtA>>
    /\ notes = EmptyDict
    /\ pdf_meta = Meta(Flags(FALSE, FALSE, FALSE, FALSE), Blank, EmptyDict)
    /\ reportlab = TRUE
    /\ pdf_buffer = None
    /\ now = 0
    /\ pc = "idle"
    /\ c = <<>>
    /\ page = 1
    /\ y = 0
    /\ y_cursor = 0
    /\ idx = 0
    /\ pending = <<>>
    /\ blk = NoBlock
    /\ buf = None
    /\ built = NoBuild
    /\ prev = NoPrev
    /\ PageUnused

FitRecordPage == RecordPageFrom(SizePool)

FitNext ==
    \/ Build \/ Cover \/ IntroStart
    \/ ContentsStart \/ ContentsLine \/ ContentsEnd
    \/ FitRecordPage \/ CommentaryCall \/ NotesCall
    \/ RecordEnd \/ Save \/ Store

FitSpec == FitInit /\ [][FitNext]_vars

\* what a drawImage call was given
Native(op) == <<op.t[1], op.t[2]>>

DrawW(op) == Unflat(SubSeq(op.t, 3, mant_dig + 3))

DrawH(op) == Unflat(SubSeq(op.t, mant_dig + 4, 2 * mant_dig + 4))

\* a <= b for positive floats
FLeq(a, b) == ~FLess(b, a)

\* the sum of two strings of digits to the base Base of the same length
RECURSIVE AddStep(_, _, _, _)
AddStep(a, b, carry, out) ==
    IF a = <<>> THEN <<carry>> \o out
    ELSE LET t == a[Len(a)] + b[Len(b)] + carry
         IN  AddStep(SubSeq(a, 1, Len(a) - 1), SubSeq(b, 1, Len(b) - 1),
                     t \div Base, <<t % Base>> \o out)

AddBits(a, b) ==
    LET n == Max(Len(a), Len(b))
    IN  ToBits(AddStep(ToLimbs(Zeros(n - Len(a)) \o a),
                       ToLimbs(Zeros(n - Len(b)) \o b), 0, <<>>))

\* draw_w * ih and draw_h * iw as exact naturals, in units of the same
\* power of two
Cross(op) ==
    LET w == DrawW(op)
        h == DrawH(op)
        e == Min(w.e, h.e)
    IN  [wh |-> MulBits(w.m, Native(op)[2]) \o Zeros(w.e - e),
         hw |-> MulBits(h.m, Native(op)[1]) \o Zeros(h.e - e)]

\* a <= b * (1 + 2^-51) for naturals
Within(a, b) == ~LessBits(AddBits(b \o Zeros(51), b), a \o Zeros(51))

\* the float that follows a
Above(a) ==
    IF Len(Increment(a.m)) > mant_dig
    THEN [m |-> SubSeq(Increment(a.m), 1, mant_dig), e |-> a.e + 1]
    ELSE [m |-> Increment(a.m), e |-> a.e]

\* C13 as stated: for every native size (iw, ih) with iw > 0 and ih > 0 the
\* draw size satisfies draw_w <= 170, draw_h <= 170 and
\* draw_w * ih = draw_h * iw.
C13_Original ==
    \A i \in 1..Len(c) :
        IsImage(c[i]) =>
            /\ FLeq(DrawW(c[i]), Float(thumb))
            /\ FLeq(DrawH(c[i]), Float(thumb))
            /\ Cross(c[i]).wh = Cross(c[i]).hw

\* C13, amended: for every native size (iw, ih) with iw > 0 and ih > 0 the
\* draw size, computed in floats, satisfies draw_w <= 170 and draw_h <= 170
\* up to one unit in the last place (it is at most the float that follows
\* 170, 170 + 2^-45), and draw_w * ih and draw_h * iw agree within a relative
\* error of 2^-51; for native size (2000, 1000) the draw size is exactly
\* (170, 85).
C13_FitWithinRounding ==
    \A i \in 1..Len(c) :
        IsImage(c[i]) =>
            /\ FLeq(DrawW(c[i]), Above(Float(thumb)))
            /\ FLeq(DrawH(c[i]), Above(Float(thumb)))
            /\ Within(Cross(c[i]).wh, Cross(c[i]).hw)
            /\ Within(Cross(c[i]).hw, Cross(c[i]).wh)
            /\ Native(c[i]) = <<2000, 1000>> =>
                   /\ DrawW(c[i]) = Float(thumb)
                   /\ DrawH(c[i]) = Float(85)

\* a document whose image has native size (1, 67) and was drawn higher than
\* 170: the long side is 67 * (170 / 67) = 170.00000000000003
C13_Witness ==
    /\ Finished
    /\ \E i \in 1..Len(c) :
         /\ IsImage(c[i])
         /\ Native(c[i]) = <<1, 67>>
         /\ FLess(Float(thumb), DrawH(c[i]))
         /\ FLess(DrawW(c[i]), Float(thumb))

\* --------------------------------------------------- a record's content

\* the operations drawn on the pages of the record at position k
OpsOfRecord(k) ==
    LET pages == PagesOfRecord(k)
    IN  SelectSeq(c, LAMBDA op : op.p \in pages)

\* an operation without its page
Drawn(op) == [k |-> op.k, y |-> op.y, o |-> op.o, n |-> op.n, t |-> op.t]

\* the header and the metadata column of the record at position k
HeadOf(k) ==
    <<Op("Rijksmuseum Selection", margin_top, "", 0, <<>>),
      Op("Artwork", margin_top - 24 * U, favorites[k].id, k, <<total>>)>>
    \o Metadata(favorites[k])

\* the title and the wrapped lines of a block, none for a blank text
BlockTexts(title, text) ==
    LET lines == wrap(Strip(text))
    IN  IF Strip(text) = <<>> THEN <<>>
        ELSE <<<<title, <<>>>>>> \o [i \in 1..Len(lines) |-> <<"line", lines[i]>>]

\* the titles and lines of the enabled blocks of the record at position k
BlocksOf(k) ==
    (IF pdf_meta.include_comments THEN BlockTexts("Commentary:", CommentOf(k)) ELSE <<>>)
    \o (IF pdf_meta.include_notes THEN BlockTexts("Research notes:", NoteOf(k)) ELSE <<>>)

IsContent(op) ==
    op.k \notin {"image", "footer_left", "footer_right", "showPage"} \cup ContKinds

HasImage(k) == \E i \in 1..Len(c) : IsImage(c[i]) /\ c[i].o = favorites[k].id

\* C11: in a finished document every record, whether its image was drawn or
\* could not be fetched, decoded or fitted, has its header and every
\* metadata row at the positions they have beside a drawn image, followed by
\* the title and every wrapped line of each enabled non-blank text block; so
\* a failed image ends neither its page nor the build, and every later record
\* is rendered.
C11_ImageFailureIsolated ==
    Finished =>
        \A k \in 1..total :
            LET content == SelectSeq(OpsOfRecord(k), IsContent)
                head    == HeadOf(k)
                blocks  == BlocksOf(k)
            IN  /\ Len(content) = Len(head) + Len(blocks)
                /\ \A i \in 1..Len(head) : Drawn(content[i]) = Drawn(head[i])
                /\ \A i \in 1..Len(blocks) :
                      <<content[Len(head) + i].k, content[Len(head) + i].t>> = blocks[i]

\* a finished document of two records: the first has an image URL but no
\* image was drawn, its date and link rows and its commentary are there, and
\* the second record has its page
C11_Witness ==
    /\ Finished
    /\ total = 2
    /\ favorites[1].img /\ favorites[1].date /\ favorites[1].link
    /\ ~HasImage(1)
    /\ {"Date:", "Link:", "Commentary:", "line"}
           \subseteq {OpsOfRecord(1)[i].k : i \in 1..Len(OpsOfRecord(1))}
    /\ PagesOfRecord(2) # {}

\* what is drawn on the pages of a record besides its image
TextKinds ==
    (BareKinds \ {"image"}) \cup {"Commentary:", "Research notes:", "line"} \cup ContKinds

\* the first block title of the record at position k, if it has one
FirstBlock(k) ==
    LET ops == SelectSeq(OpsOfRecord(k), LAMBDA op : op.k \in {"Commentary:", "Research notes:"})
    IN  IF ops = <<>> THEN <<>> ELSE <<ops[1]>>

\* C12 as stated: whenever a record has no image URL or its image cannot be
\* fetched, decoded or fitted, a placeholder is drawn in the image area of
\* that record's page.
C12_Original ==
    Finished =>
        \A k \in 1..total :
            ~HasImage(k) =>
                \E i \in 1..Len(OpsOfRecord(k)) :
                    /\ OpsOfRecord(k)[i].k \notin TextKinds
                    /\ OpsOfRecord(k)[i].y >= y_image_top - thumb_h
                    /\ OpsOfRecord(k)[i].y <= y_image_top

\* C12, amended: whenever a record has no image URL or its image cannot be
\* fetched, decoded or fitted, nothing is drawn in place of the image on that
\* record's page: its pages carry the header, the metadata column, the text
\* blocks and the footers only, and the image area is not kept free, the
\* first text block starting 28 below the last metadata row.
C12_NoPlaceholder ==
    Finished =>
        \A k \in 1..total :
            ~HasImage(k) =>
                /\ \A i \in 1..Len(OpsOfRecord(k)) : OpsOfRecord(k)[i].k \in TextKinds
                /\ \A i \in 1..Len(FirstBlock(k)) :
                      FirstBlock(k)[i].y = y_text_end(favorites[k]) - 28 * U

\* a finished document with a record that has an image URL, whose image was
\* not drawn, and with a record that has no image URL; the first block of
\* each starts inside the height of the image box
C12_Witness ==
    /\ Finished
    /\ \E k \in 1..total :
         /\ favorites[k].img
         /\ ~HasImage(k)
         /\ FirstBlock(k) # <<>>
         /\ FirstBlock(k)[1].y > y_image_top - thumb_h
    /\ \E k \in 1..total :
         /\ ~favorites[k].img
         /\ FirstBlock(k) # <<>>
         /\ FirstBlock(k)[1].y > y_image_top - thumb_h

\* the first page of the record at position k
FirstPage(k) ==
    c[CHOOSE i \in 1..Len(c) : c[i].k = "Artwork" /\ c[i].n = k].p

\* the titles and lines of the blocks on the first page of the record at
\* position k
BlockOpsBeside(k) ==
    LET first == FirstPage(k)
    IN  SelectSeq(c, LAMBDA op : /\ op.p = first
                                 /\ op.k \in {"Commentary:", "Research notes:", "line"})

\* the bottom edges of the images drawn for the record at position k
ImageBottoms(k) ==
    {c[i].y : i \in {j \in 1..Len(c) : IsImage(c[j]) /\ c[j].o = favorites[k].id}}

\* C14: on every record page the first text block starts no higher than the
\* bottom edge of the drawn image and no higher than the last metadata row,
\* and so does every block title and block line of that page: none is beside
\* the image or the metadata column; and whatever date and link rows a
\* record has and whatever size its image is drawn at, the cursor handed to
\* the first block is at or below both.
C14_BlocksBelowImageAndMetadata ==
    /\ Finished =>
         \A k \in 1..total :
             LET beside == BlockOpsBeside(k)
                 edges  == ImageBottoms(k)
             IN  \A i \in 1..Len(beside) :
                     /\ beside[i].y <= y_text_end(favorites[k])
                     /\ \A b \in edges : beside[i].y <= b
    /\ pc = "record" =>
         \A d \in BOOLEAN, l \in BOOLEAN, img \in ImgPool :
             LET art == [favorites[idx] EXCEPT !.date = d, !.link = l, !.img = TRUE]
             IN  /\ BlockTop(art, img) <= y_text_end(art)
                 /\ ImageDrawn(art, img) =>
                        BlockTop(art, img) <= y_image_top - draw_h(img.iw, img.ih)

\* a finished document with a record whose image fills the height of the box
\* and whose first block starts 40 below it, and with a record without image
\* whose first block starts 28 below its last metadata row
C14_Witness ==
    /\ Finished
    /\ \E k \in 1..total :
         /\ ImageBottoms(k) = {y_image_top - thumb_h}
         /\ FirstBlock(k) # <<>>
         /\ FirstBlock(k)[1].y = y_image_top - thumb_h - 40 * U
    /\ \E k \in 1..total :
         /\ ImageBottoms(k) = {}
         /\ FirstBlock(k) # <<>>
         /\ FirstBlock(k)[1].y = y_text_end(favorites[k]) - 28 * U

\* --------------------------------------------------------- front matter

\* the numbered, wrapped entries of the first k favorites
RECURSIVE EntriesUpTo(_)
EntriesUpTo(k) ==
    IF k = 0 THEN <<>>
    ELSE LET lines == wrap(contents_line(favorites[k]))
         IN  EntriesUpTo(k - 1)
             \o [i \in 1..Len(lines) |-> <<k, favorites[k].id, lines[i]>>]

\* the first operation of a page
FirstOn(p) == c[CHOOSE i \in 1..Len(c) : c[i].p = p /\ \A j \in 1..(i - 1) : c[j].p # p]

\* C15: a finished document has the Contents section whatever the flags are:
\* one "Contents" heading, then for every favorite, in order and numbered
\* from 1, the wrapped lines of "{idx}. {title} - {maker} (ID: {obj_num})" in
\* order, and nothing else; the section starts on a page of its own under
\* "Contents", and every further page it takes starts with
\* "Contents (cont.)" at the top margin.
C15_Contents ==
    Finished =>
        LET listed   == SelectSeq(c, LAMBDA op : op.k = "contents_line")
            headings == SelectSeq(c, LAMBDA op : op.k = "Contents")
        IN  /\ Len(headings) = 1
            /\ headings[1].y = margin_top
            /\ FirstOn(headings[1].p) = headings[1]
            /\ [i \in 1..Len(listed) |-> <<listed[i].n, listed[i].o, listed[i].t>>]
                   = EntriesUpTo(total)
            /\ \A i \in 1..Len(listed) :
                   /\ listed[i].p >= headings[1].p
                   /\ listed[i].p > headings[1].p =>
                          /\ FirstOn(listed[i].p).k = "Contents (cont.)"
                          /\ FirstOn(listed[i].p).y = margin_top
            /\ \A i \in 1..(Len(listed) - 1) :
                   \/ listed[i + 1].p = listed[i].p /\ listed[i + 1].y = listed[i].y - 15 * U
                   \/ listed[i + 1].p = listed[i].p + 1 /\ listed[i + 1].y = margin_top - 35 * U

\* a finished document without cover and Introduction: Contents is its
\* first page, lists two favorites, and goes on under "Contents (cont.)"
C15_Witness ==
    /\ Finished
    /\ ~pdf_meta.include_cover
    /\ ~pdf_meta.include_opening_text
    /\ ~pdf_meta.include_comments
    /\ ~pdf_meta.include_notes
    /\ total = 2
    /\ c[1].k = "Contents"
    /\ \E i \in 1..Len(c) : c[i].k = "Contents (cont.)" /\ c[i].p = 2

\* the index of the first operation of kind k
IndexOf(k) == CHOOSE i \in 1..Len(c) : c[i].k = k /\ \A j \in 1..(i - 1) : c[j].k # k

\* C16: a finished document has an Introduction if and only if
\* include_opening_text is set and the opening text, stripped, is not empty.
\* If it has one, "Introduction" heads a page of its own, the wrapped lines
\* of the stripped text follow in order on pages that carry nothing of
\* another section, and the section ends with a footer and a page break
\* right before "Contents". If it has none, no Introduction heading is
\* drawn and Contents is on the page right after the cover, or on page 1.
C16_Introduction ==
    Finished =>
        LET intro    == SelectSeq(c, LAMBDA op : op.k \in IntroKinds)
            lines    == SelectSeq(c, LAMBDA op : op.k = "intro_line")
            contents == IndexOf("Contents")
            after    == IF pdf_meta.include_cover THEN 2 ELSE 1
        IN  /\ (intro # <<>>) <=>
                   (pdf_meta.include_opening_text /\ Strip(pdf_meta.opening_text) # <<>>)
            /\ intro = <<>> => c[contents].p = after
            /\ intro # <<>> =>
                   /\ intro[1].k = "Introduction"
                   /\ intro[1].y = margin_top
                   /\ intro[1].p = after
                   /\ FirstOn(after) = intro[1]
                   /\ [i \in 1..Len(lines) |-> lines[i].t] = wrap(Strip(pdf_meta.opening_text))
                   /\ \A p \in after..intro[Len(intro)].p : SectionsOn(p) = {1}
                   /\ c[contents].p = intro[Len(intro)].p + 1
                   /\ c[contents - 1].k = "showPage"
                   /\ c[contents - 2].k = "footer_right"
                   /\ c[contents - 3].k = "footer_left"
                   /\ c[contents - 4] = intro[Len(intro)]

\* a finished document with a cover and an Introduction of two pages, the
\* second under "Introduction (cont.)", and Contents on page 4
C16_Witness ==
    /\ Finished
    /\ pdf_meta.include_cover
    /\ \E i \in 1..Len(c) : c[i].k = "Introduction" /\ c[i].p = 2
    /\ \E i \in 1..Len(c) : c[i].k = "Introduction (cont.)" /\ c[i].p = 3
    /\ c[IndexOf("Contents")].p = 4

\* C17: a finished document has a cover if and only if include_cover is set.
\* If it has one, the cover is page 1 and only page 1: the title, the
\* generation time and the count of artworks, then the footer and the page
\* break, and nothing of another section; and the count it shows is the
\* number of records that have a record page. If it has none, the document
\* starts with the Introduction or with Contents.
C17_Cover ==
    Finished =>
        LET cover   == SelectSeq(c, LAMBDA op : op.k \in CoverKinds)
            records == SelectSeq(c, LAMBDA op : op.k = "Artwork")
        IN  /\ (cover # <<>>) <=> pdf_meta.include_cover
            /\ cover = <<>> => c[1].k \in {"Introduction", "Contents"}
            /\ cover # <<>> =>
                   /\ SubSeq(c, 1, 3) = cover
                   /\ [i \in 1..3 |-> cover[i].k]
                          = <<"cover_title", "cover_generated", "cover_count">>
                   /\ [i \in 4..6 |-> c[i].k]
                          = [i \in 4..6 |-> <<"footer_left", "footer_right", "showPage">>[i - 3]]
                   /\ \A i \in 1..Len(c) : (c[i].p = 1) <=> (i <= 6)
                   /\ cover[3].n = Len(records)
                   /\ cover[3].n = Cardinality({k \in 1..total : PagesOfRecord(k) # {}})
                   /\ cover[3].n = total

\* a finished document with a cover that counts two artworks, followed by
\* the record pages of two records
C17_Witness ==
    /\ Finished
    /\ pdf_meta.include_cover
    /\ c[3].k = "cover_count"
    /\ c[3].n = 2
    /\ \E i, j \in 1..Len(c) :
         /\ c[i].k = "Artwork" /\ c[i].n = 1
         /\ c[j].k = "Artwork" /\ c[j].n = 2

\* ------------------------------------------------------- blocks in order

\* where a block starts that is called with the cursor at yy on page p: there,
\* or below its continuation header on the next page when yy is too low
StartOf(p, yy) ==
    IF yy < margin_bottom + 40 * U
    THEN [p |-> p + 1, y |-> margin_top - 30 * U]
    ELSE [p |-> p, y |-> yy]

\* C18: in a finished document "Commentary:" and "Commentary (cont.)" are
\* drawn only with include_comments set, "Research notes:" and
\* "Notes (cont.)" only with include_notes set; on the pages of a record the
\* commentary title, all its lines and its continuation headers come before
\* the notes title, and nothing of the commentary after it; and the notes
\* block starts at the cursor the commentary returned, one line height below
\* the last commentary line (on the next page when that is too low), or at
\* the first cursor of the record when no commentary was drawn.
C18_BlockOrder ==
    Finished =>
        /\ \A i \in 1..Len(c) :
              /\ c[i].k \in {"Commentary:", "Commentary (cont.)"} => pdf_meta.include_comments
              /\ c[i].k \in {"Research notes:", "Notes (cont.)"} => pdf_meta.include_notes
        /\ \A k \in 1..total :
              LET ops   == OpsOfRecord(k)
                  text  == SelectSeq(ops, LAMBDA op : op.k \in {"Commentary:", "Research notes:", "line"})
                  art   == favorites[k]
                  top   == IF HasImage(k)
                           THEN Min(y_image_top - thumb_h - 40 * U, y_text_end(art) - 28 * U)
                           ELSE y_text_end(art) - 28 * U
              IN  \A i \in 1..Len(ops) :
                      /\ ops[i].k \in {"Research notes:", "Notes (cont.)"} =>
                             \A j \in i..Len(ops) :
                                 ops[j].k \notin {"Commentary:", "Commentary (cont.)"}
                      /\ ops[i].k = "Commentary:" =>
                             \A j \in 1..i : ops[j].k \notin {"Research notes:", "Notes (cont.)", "line"}
                      /\ ops[i].k = "Research notes:" =>
                             LET n    == CHOOSE j \in 1..Len(text) : text[j] = ops[i]
                                 from == IF n = 1
                                         THEN [p |-> FirstPage(k), y |-> top]
                                         ELSE [p |-> text[n - 1].p, y |-> text[n - 1].y - 14 * U]
                             IN  /\ n > 1 => text[n - 1].k = "line"
                                 /\ (n > 1) <=> (pdf_meta.include_comments /\ Strip(CommentOf(k)) # <<>>)
                                 /\ [p |-> ops[i].p, y |-> ops[i].y] = StartOf(from.p, from.y)

\* a finished document with a record whose commentary went on under
\* "Commentary (cont.)" and is followed by its notes on the same page, one
\* line height below its last line
C18_Witness ==
    /\ Finished
    /\ \E i \in 2..Len(c) :
          /\ c[i].k = "Research notes:"
          /\ c[i - 1].k = "line"
          /\ c[i - 1].p = c[i].p
          /\ c[i].y = c[i - 1].y - 14 * U
          /\ \E j \in 1..i : c[j].k = "Commentary (cont.)" /\ c[j].o = "A"

\* ------------------------------------------------- continuation headers

\* the index of the latest operation before i whose kind is in kinds, 0 if none
LastBefore(i, kinds) ==
    IF \E j \in 1..(i - 1) : c[j].k \in kinds
    THEN CHOOSE j \in 1..(i - 1) :
             c[j].k \in kinds /\ \A l \in (j + 1)..(i - 1) : c[l].k \notin kinds
    ELSE 0

TitleOf(header) ==
    IF header = "Commentary (cont.)" THEN "Commentary:" ELSE "Research notes:"

\* C19: every continuation header on the canvas is the header of the block
\* that is being rendered where it is drawn: it carries the object number of
\* the record whose "Artwork k of N" page came last, it is on a later page
\* than that one, and the block title drawn last in that record is its own,
\* or its own title is the next thing drawn; so no header outlives its block
\* or its record, and no cover, Introduction or Contents page and no first
\* page of a record carries one.
C19_HeaderScope ==
    \A i \in 1..Len(c) :
        c[i].k \in ContKinds =>
            LET rec   == LastBefore(i, {"Artwork"})
                title == LastBefore(i, {"Artwork", "Commentary:", "Research notes:"})
            IN  /\ rec > 0
                /\ c[rec].o = c[i].o
                /\ c[rec].p < c[i].p
                /\ c[i].y = margin_top
                /\ \/ c[title].k = TitleOf(c[i].k)
                   \/ i = Len(c)
                   \/ c[i + 1].k = TitleOf(c[i].k)
                /\ \A j \in 1..Len(c) :
                      c[j].p = c[i].p =>
                          c[j].k \notin CoverKinds \cup IntroKinds \cup ContentsKinds
                                        \cup {"Rijksmuseum Selection", "Artwork"}

\* a finished document of two records: the notes of the first were broken
\* and went on under its "Notes (cont.)", after a commentary on the page
\* before, and the pages of the second record carry no header
C19_Witness ==
    /\ Finished
    /\ total = 2
    /\ \E i \in 1..Len(c) :
         /\ c[i].k = "Notes (cont.)"
         /\ c[i].o = favorites[1].id
         /\ c[LastBefore(i, {"Commentary:", "Research notes:"})].k = "Research notes:"
         /\ LastBefore(i, {"Commentary:"}) > 0
    /\ \A i \in 1..Len(c) : c[i].k \in ContKinds => c[i].o # favorites[2].id
    /\ \E i \in 1..Len(c) : c[i].k = "line" /\ c[i].p = FirstPage(2)

\* C20 as stated: a continuation header is drawn only at the top of a page
\* that resumes a block broken by a page boundary: the title of its block
\* was drawn on an earlier page of the same record, and it is never on the
\* page where the title of its block is.
C20_HeaderOnlyResumes ==
    \A i \in 1..Len(c) :
        (c[i].k \in ContKinds /\ i < Len(c)) =>
            LET rec   == LastBefore(i, {"Artwork"})
                title == LastBefore(i, {"Artwork", TitleOf(c[i].k)})
            IN  /\ title > rec
                /\ c[title].p < c[i].p
                /\ \A j \in 1..Len(c) :
                      (c[j].p = c[i].p) => c[j].k # TitleOf(c[i].k)

\* ------------------------------------------------------------------ wrap
\* wrap(text, width=90) on its own: the for statements of lines 418, 456 and
\* 477 evaluate it once, on a text of any shape.

\* lengths of the words and of the runs of blanks of the enumerated texts:
\* around half the width, around the width, and twice the width
WordLens == {1, 44, 45, 46, 89, 90, 91, 181}
BlankLens == {1, 2, 90, 91}

\* texts of up to n chunks; two runs of blanks are never adjacent, two words
\* are where the text can be broken after a hyphen
RECURSIVE Texts(_)
Texts(n) ==
    IF n = 0 THEN {<<>>}
    ELSE LET shorter == Texts(n - 1)
         IN  shorter \cup
             {Append(s, w) : s \in {t \in shorter : Len(t) = n - 1}, w \in WordLens}
             \cup
             {Append(s, -b) : s \in {t \in shorter : Len(t) = n - 1
                                        /\ (t = <<>> \/ t[Len(t)] > 0)},
                              b \in BlankLens}

TextPool == Texts(MaxChunks)

WrapInit ==
    /\ favorites = <<>>
    /\ notes = EmptyDict
    /\ pdf_meta = Meta(Flags(FALSE, FALSE, FALSE, FALSE), <<>>, EmptyDict)
    /\ reportlab = TRUE
    /\ pdf_buffer = None
    /\ now = 0
    /\ pc = "wrap"
    /\ c = <<>>
    /\ page = 1
    /\ y = 0
    /\ y_cursor = 0
    /\ idx = 0
    /\ pending = <<>>
    /\ \E text \in TextPool : blk = [NoBlock EXCEPT !.text = text]
    /\ buf = None
    /\ built = NoBuild
    /\ prev = NoPrev
    /\ PageUnused

\* for line in wrap(text, width=90): the call
WrapCall ==
    /\ pc = "wrap"
    /\ pending' = wrap(blk.text)
    /\ pc' = "wrapped"
    /\ UNCHANGED <<session, pdf_buffer, now, c, page, y, y_cursor, idx, blk, buf,
                   built, prev>>

WrapNext == WrapCall

WrapSpec == WrapInit /\ [][WrapNext]_vars

\* the text has no word
AllBlank(text) == \A i \in 1..Len(text) : text[i] < 0

\* C21: wrap(S, width=90) yields only lines of at most 90 characters, and no
\* line of no character; a text of whitespace only yields no line at all.
C21_WrapLines ==
    pc = "wrapped" =>
        /\ \A i \in 1..Len(pending) :
             /\ SumLen(pending[i]) <= wrap_width
             /\ SumLen(pending[i]) > 0
        /\ AllBlank(blk.text) => pending = <<>>

\* a word of twice the width after a short one has been cut to fill three
\* lines, the first two of them full
C21_Witness ==
    /\ pc = "wrapped"
    /\ blk.text = <<44, -1, 181>>
    /\ Len(pending) = 3
    /\ SumLen(pending[1]) = wrap_width
    /\ SumLen(pending[2]) = wrap_width

\* " ".join(lines)
RECURSIVE Join(_)
Join(lines) ==
    IF lines = <<>> THEN <<>>
    ELSE IF Len(lines) = 1 THEN lines[1]
    ELSE lines[1] \o <<-1>> \o Join(Tail(lines))

\* " ".join(text.split()) of a text: every run of whitespace is one blank, and
\* pieces that nothing separates are one word
RECURSIVE Collapse(_, _)
Collapse(s, out) ==
    IF s = <<>> THEN out
    ELSE LET last == IF out = <<>> THEN 0 ELSE out[Len(out)]
         IN  Collapse(Tail(s),
                      IF Head(s) < 0
                      THEN IF last < 0 THEN out ELSE Append(out, -1)
                      ELSE IF last > 0
                           THEN [out EXCEPT ![Len(out)] = last + Head(s)]
                           ELSE Append(out, Head(s)))

Normalized(text) == Collapse(Strip(text), <<>>)

\* the words of a text, in order
WordsOf(text) == SelectSeq(Normalized(text), LAMBDA n : n > 0)

\* every word of the text is one chunk that fits the width: it is no longer
\* than 90 characters and has no hyphen it can be broken after
PlainWords(text) ==
    /\ \A i \in 1..Len(text) : text[i] <= wrap_width
    /\ \A i \in 1..(Len(text) - 1) : ~(text[i] > 0 /\ text[i + 1] > 0)

\* C22 as stated: no word of any length is split across two lines, and the
\* lines joined with single blanks are the whitespace-normalized text.
C22_Original ==
    pc = "wrapped" =>
        /\ WordsOf(Join(pending)) = WordsOf(blk.text)
        /\ Join(pending) = Normalized(blk.text)

\* C22: a word of at most 90 characters without a hyphen to break it at is
\* never split across two lines, and when the text has only such words the
\* lines joined with single blanks are the text up to whitespace
\* normalization: both have the same words, in the same order, separated by
\* whitespace.
C22_WordsKept ==
    (pc = "wrapped" /\ PlainWords(blk.text)) =>
        /\ WordsOf(Join(pending)) = WordsOf(blk.text)
        /\ Normalized(Join(pending)) = Normalized(blk.text)

\* two words that do not fit one line, wrapped where two blanks separate them
C22_Witness ==
    /\ pc = "wrapped"
    /\ blk.text = <<46, -2, 46>>
    /\ pending = <<<<46>>, <<46>>>>
    /\ Join(pending) = <<46, -1, 46>>

\* ------------------------------------------------- the stored document

\* a document is complete for the arguments of its build: it has the record
\* page of every favorite, in order, and it ends with the footer and the page
\* end of the last one
Complete(doc, args) ==
    LET n == Len(args.favorites)
        heads == SelectSeq(doc, LAMBDA op : op.k = "Artwork")
        last == Len(doc)
    IN  /\ n > 0
        /\ Len(heads) = n
        /\ \A k \in 1..n : heads[k].n = k /\ heads[k].o = args.favorites[k].id
        /\ last >= 3
        /\ doc[last].k = "showPage"
        /\ doc[last - 1].k = "footer_right"
        /\ doc[last - 2].k = "footer_left"
        /\ \A i \in 1..last : doc[i].k = "Artwork" => doc[i].p <= doc[last].p
        /\ \E i \in 1..last : doc[i].k = "Artwork" /\ doc[i].n = n
                              /\ \A j \in i..last : doc[j].k = "showPage" =>
                                     (j = last \/ doc[j + 1].k \notin BareKinds)

\* the build that produced the stored buffer: the latest one once its result
\* is stored, the one before it while a build runs
StoredBuild ==
    IF pc = "done" THEN [args |-> built, buf |-> buf]
    ELSE [args |-> prev.args, buf |-> prev.buf]

FooterKinds == {"footer_left", "footer_right"}

\* the positions in the canvas of the operations of page p
OpsOn(p) == {i \in 1..Len(c) : c[i].p = p}

\* C24: every page carries exactly one footer, the last thing drawn on it:
\* every showPage comes right after a draw_footer on the same page, a footer
\* is drawn nowhere else, and nothing is drawn after the footer and the page
\* end of the last record.
C24_FooterEndsPage ==
    /\ \A i \in 1..Len(c) :
         /\ c[i].k = "showPage" =>
               /\ i >= 3
               /\ c[i - 1].k = "footer_right" /\ c[i - 1].p = c[i].p
               /\ c[i - 2].k = "footer_left" /\ c[i - 2].p = c[i].p
         /\ c[i].k = "footer_left" =>
               i + 2 <= Len(c) /\ c[i + 1].k = "footer_right"
         /\ c[i].k = "footer_right" =>
               i + 1 <= Len(c) /\ c[i + 1].k = "showPage" /\ c[i - 1].k = "footer_left"
         /\ c[i].k \in FooterKinds => c[i].y = margin_bottom
    /\ \A p \in Pages :
         LET ops == OpsOn(p)
             last == CHOOSE i \in ops : \A j \in ops : j <= i
         IN  /\ ops # {}
             /\ c[last].k = "showPage"
             /\ Cardinality({i \in ops : c[i].k = "showPage"}) = 1
             /\ Cardinality({i \in ops : c[i].k = "footer_left"}) = 1
             /\ Cardinality({i \in ops : c[i].k = "footer_right"}) = 1
    /\ Finished =>
         /\ c[Len(c)].k = "showPage"
         /\ OpsOn(page) = {}
         /\ \E i \in 1..Len(c) : c[i].k = "Artwork" /\ c[i].n = total
                                 /\ c[i].p <= c[Len(c)].p
         /\ buf.doc = c

\* a finished document with a cover, two records and a page that a page
\* break inside a block has ended
C24_Witness ==
    /\ Finished
    /\ pdf_meta.include_cover
    /\ total = 2
    /\ page > 5
    /\ \E i \in 1..Len(c) : c[i].k \in ContKinds

\* ------------------------------------------------- the cursor of a block

\* draw_text_block returns in this step
Returns == pc = "block_loop" /\ pc' # "block_loop"

\* the block that returns has drawn its title at y_start and its lines right
\* after it on the same page: no page break was needed
Unbroken ==
    LET n == Len(wrap(blk.text))
        title == Len(c) - n
    IN  /\ title >= 1
        /\ c[title].k = blk.title
        /\ c[title].y = y_cursor
        /\ c[title].p = c[Len(c)].p

\* C25: the cursor goes down by 14 per drawn line, and draw_text_block
\* returns the y of its last drawn line minus 14: y_start - 18 - 14 * n for a
\* text of n lines that needs no page break; the caller starts the next
\* block there.
C25_CursorReturned ==
    [][/\ Returns =>
            LET n == Len(wrap(blk.text))
                last == c[Len(c)]
            IN  /\ n > 0
                /\ last.k = "line"
                /\ y_cursor' = last.y - 14 * U
                /\ Unbroken => y_cursor' = y_cursor - 18 * U - 14 * U * n
       /\ (pc = "block_loop" /\ pc' = "block_loop" /\ c[Len(c)].k = "line"
             /\ Len(c') = Len(c) + 1) =>
            /\ c'[Len(c')].k = "line"
            /\ c'[Len(c')].y = c[Len(c)].y - 14 * U
            /\ y' = c'[Len(c')].y - 14 * U
       /\ (pc = "notes" /\ pc' = "block_start") => y' = y_cursor]_vars

\* a commentary of 24 lines has returned, unbroken, below the image of its
\* record, and the notes start where it ended
C25_Witness ==
    LET n == LongLines - 4
        title == Len(c) - n - 1
    IN  /\ pc = "block_loop"
        /\ blk.title = "Research notes:"
        /\ title >= 1
        /\ c[title].k = "Commentary:"
        /\ c[title].p = page
        /\ c[Len(c)].k = "Research notes:"
        /\ c[Len(c) - 1].k = "line"
        /\ y_cursor = c[title].y - 18 * U - 14 * U * n
        /\ c[Len(c)].y = y_cursor
        /\ \E i \in 1..Len(c) : c[i].k = "image" /\ c[i].p = page

\* ------------------------------------------------------- the bottom margin

LineKinds == {"intro_line", "contents_line", "line"}

BlockTitles == {"Commentary:", "Research notes:"}

\* C26: every wrapped line of the Introduction, the Contents, a commentary
\* or notes is drawn at y >= margin_bottom + 20 and every block title at
\* y >= margin_bottom + 40: no line of text is at or below the footer's
\* baseline, however long the texts and however many the records.
C26_AboveFooter ==
    \A i \in 1..Len(c) :
        /\ c[i].k \in LineKinds =>
              c[i].y >= margin_bottom + 20 * U /\ c[i].y > margin_bottom
        /\ c[i].k \in BlockTitles =>
              c[i].y >= margin_bottom + 40 * U /\ c[i].y > margin_bottom

\* a block line is the lowest its page can take, less than a line height
\* above the limit, and the block goes on over the page break; the title of
\* the notes is drawn low on a page, with less than five lines' room
C26_Witness ==
    /\ Finished
    /\ \E i \in 1..Len(c) : /\ c[i].k = "line"
                            /\ c[i].y < margin_bottom + 34 * U
    /\ \E i \in 1..Len(c) : c[i].k \in ContKinds
    /\ \E i \in 1..Len(c) : /\ c[i].k = "Research notes:"
                            /\ c[i].y < margin_bottom + 90 * U

\* ------------------------------------------------------- titles and lines

\* C27: no block title is left alone at the bottom of a page: a block that
\* has drawn its title has a line to draw, and what is drawn next after the
\* title is that first line, on the title's page.
C27_TitleWithFirstLine ==
    /\ \A i \in 1..Len(c) :
         c[i].k \in BlockTitles =>
            IF i = Len(c)
            THEN pc = "block_loop" /\ pending # <<>> /\ ~NeedsBreak(y)
            ELSE /\ c[i + 1].k = "line"
                 /\ c[i + 1].p = c[i].p
    /\ Finished => \A i \in 1..Len(c) : c[i].k \in BlockTitles => i < Len(c)

\* the title of the notes is drawn with less than 58 of room above the
\* bottom margin, its first line is under it on that page, and the notes go
\* on over a page break
C27_Witness ==
    /\ Finished
    /\ \E i \in 1..(Len(c) - 1) :
         /\ c[i].k = "Research notes:"
         /\ c[i].y < margin_bottom + 58 * U
         /\ c[i + 1].k = "line"
         /\ c[i + 1].p = c[i].p
         /\ c[i + 1].y < margin_bottom + 40 * U
         /\ \E j \in (i + 1)..Len(c) : c[j].k = "Notes (cont.)" /\ c[j].p = c[i].p + 1

\* ------------------------------------------------- lines over page breaks

\* the texts of the operations of some kinds, in the order they were drawn
TextsOf(ops, kinds) ==
    LET sel == SelectSeq(ops, LAMBDA op : op.k \in kinds)
    IN  [i \in 1..Len(sel) |-> sel[i].t]

\* the lines of the block that is being drawn: what follows its title
LinesOfBlock ==
    LET title == CHOOSE i \in 1..Len(c) :
                    /\ c[i].k = blk.title
                    /\ \A j \in (i + 1)..Len(c) : c[j].k # blk.title
    IN  TextsOf(SubSeq(c, title + 1, Len(c)), {"line"})

\* the number of lines of the enabled blocks of the records up to position k
RECURSIVE BlockLinesUpTo(_)
BlockLinesUpTo(k) ==
    IF k = 0 THEN 0
    ELSE BlockLinesUpTo(k - 1)
         + (IF pdf_meta.include_comments THEN Len(wrap(Strip(CommentOf(k)))) ELSE 0)
         + (IF pdf_meta.include_notes THEN Len(wrap(Strip(NoteOf(k)))) ELSE 0)

\* C28: page breaks neither lose nor duplicate a line: in each loop the lines
\* drawn so far followed by the lines still to draw are the wrapped text,
\* whatever page breaks the loop has made; the drawn lines follow each other
\* down the page and from page to page; a finished document has every
\* wrapped line of the Introduction, the Contents and the blocks once.
C28_LinesKept ==
    LET drawn == SelectSeq(c, LAMBDA op : op.k \in LineKinds)
        listed == SelectSeq(c, LAMBDA op : op.k = "contents_line")
    IN  /\ pc = "intro_loop" =>
              TextsOf(c, {"intro_line"}) \o pending = wrap(opening_text_cfg)
        /\ pc = "contents_loop" =>
              [i \in 1..Len(listed) |-> <<listed[i].n, listed[i].o, listed[i].t>>]
                \o [i \in 1..Len(pending) |-> <<idx, favorites[idx].id, pending[i]>>]
              = EntriesUpTo(idx)
        /\ pc = "block_loop" => LinesOfBlock \o pending = wrap(blk.text)
        /\ \A i \in 1..(Len(drawn) - 1) :
              \/ drawn[i].p < drawn[i + 1].p
              \/ drawn[i].p = drawn[i + 1].p /\ drawn[i].y > drawn[i + 1].y
        /\ Finished =>
              /\ TextsOf(c, {"intro_line"})
                   = IF IntroEmitted THEN wrap(opening_text_cfg) ELSE <<>>
              /\ Len(listed) = Len(EntriesUpTo(total))
              /\ Len(TextsOf(c, {"line"})) = BlockLinesUpTo(total)

\* the Introduction has been drawn over a page break, all its lines, and the
\* Contents loop, after a page break of its own, has lines yet to draw
C28_Witness ==
    /\ pc = "contents_loop"
    /\ pending # <<>>
    /\ \E i \in 1..Len(c) : c[i].k = "Contents (cont.)"
    /\ \E i \in 1..Len(c) : c[i].k = "Introduction (cont.)"
    /\ Len(TextsOf(c, {"intro_line"})) = FrontLines

\* ------------------------------------------------- the selection page
\* One run of the script of the page, top to bottom, in the grid view: the
\* positions are the places where the script reads what was clicked.

\* the object numbers of the selection
FavIds == {favorites[i].id : i \in 1..Len(favorites)}

\* dict.pop(key, None), and del dict[key] for a key that may be missing
Pop(d, key) == [x \in DOMAIN d \ {key} |-> d[x]]

\* dict[key] = value
Put(d, key, value) ==
    [x \in DOMAIN d \cup {key} |-> IF x = key THEN value ELSE d[x]]

\* favorites.pop(obj_num, None)
PopFavorite(o) == SelectSeq(favorites, LAMBDA art : art.id # o)

\* st.checkbox(..., key=cmp_key) for the cards of some artworks: a checkbox
\* without a key in the session state gets it, unchecked
WithKeys(ids) ==
    [x \in DOMAIN cmp \cup ids |-> IF x \in DOMAIN cmp THEN cmp[x] ELSE FALSE]

\* the ids of the cards down to the card of o
CardsDownTo(o) == {favorites[i].id : i \in 1..Pos(o)}

\* what the text area of the detail view can hold
NoteTexts == {Blank, Para(1)}

\* the buttons the last run has drawn
Buttons ==
    IF favorites = <<>> THEN {}
    ELSE {[w |-> "clear_selection", o |-> ""], [w |-> "clear_compare_grid_btn", o |-> ""]}
         \cup {[w |-> "remove_card", o |-> o] : o \in FavIds}
         \cup {[w |-> "detail_btn", o |-> o] : o \in FavIds}
         \cup (IF detail_art_id \in FavIds
               THEN {[w |-> b, o |-> detail_art_id] :
                        b \in {"save_note", "remove_detail", "close_detail"}}
               ELSE {})

\* st.rerun(): the script starts again, with no button clicked
rerun == pc' = "sel_top" /\ clicked' = NoClick

build_state == <<pdf_meta, reportlab, pdf_buffer, now, c, page, y, y_cursor, idx,
                 pending, blk, buf, built, prev>>

\* a selection and notes for some of its artworks; the page is opened
PageInit ==
    /\ favorites \in FavPool
    /\ \E keys \in SUBSET FavIds : notes \in [keys -> NoteTexts]
    /\ pdf_meta = Meta(Flags(FALSE, FALSE, FALSE, FALSE), Blank, EmptyDict)
    /\ reportlab = TRUE
    /\ pdf_buffer = None
    /\ now = 0
    /\ pc = "sel_top"
    /\ c = <<>>
    /\ page = 1
    /\ y = 0
    /\ y_cursor = 0
    /\ idx = 0
    /\ pending = <<>>
    /\ blk = NoBlock
    /\ buf = None
    /\ built = NoBuild
    /\ prev = NoPrev
    /\ PageUnused

\* the user clicks a button of the page: the script runs
ClickButton ==
    /\ pc = "idle"
    /\ \E b \in Buttons : clicked' = b
    /\ pc' = "sel_top"
    /\ UNCHANGED <<favorites, notes, detail_art_id, cmp, clear_compare_flag, build_state>>

\* the user checks or unchecks "Select for comparison" on a card
ToggleCompare ==
    /\ pc = "idle"
    /\ \E o \in FavIds \cap DOMAIN cmp : cmp' = [cmp EXCEPT ![o] = ~cmp[o]]
    /\ clicked' = NoClick
    /\ pc' = "sel_top"
    /\ UNCHANGED <<favorites, notes, detail_art_id, clear_compare_flag, build_state>>

\* the top of the script: without favorites the page stops before any of its
\* buttons
SelTop ==
    /\ pc = "sel_top"
    /\ IF favorites = <<>>
       THEN pc' = "idle" /\ clicked' = NoClick
       ELSE pc' = "sel_clear" /\ UNCHANGED clicked
    /\ UNCHANGED <<favorites, notes, detail_art_id, cmp, clear_compare_flag, build_state>>

\* if st.button("Clear my entire selection")
ClearSelection ==
    /\ pc = "sel_clear"
    /\ IF clicked.w = "clear_selection"
       THEN /\ favorites' = <<>>
            /\ cmp' = NoKeys
            /\ detail_art_id' = NoId
            /\ rerun
       ELSE /\ pc' = "sel_flag"
            /\ UNCHANGED <<favorites, cmp, detail_art_id, clicked>>
    /\ UNCHANGED <<notes, clear_compare_flag, build_state>>

\* a flag that is reset while the keys of the checkboxes stay
ClearCompareFlagOnly ==
    /\ pc = "sel_flag"
    /\ clear_compare_flag' = FALSE
    /\ pc' = "sel_cards"
    /\ UNCHANGED <<favorites, notes, detail_art_id, cmp, clicked, build_state>>

\* if st.session_state["clear_compare_flag"]: every cmp_from_sel_ key is
\* deleted and the flag is reset
ClearCompareFlag ==
    /\ pc = "sel_flag"
    /\ IF clear_compare_flag
       THEN cmp' = NoKeys /\ clear_compare_flag' = FALSE
       ELSE UNCHANGED <<cmp, clear_compare_flag>>
    /\ pc' = "sel_cards"
    /\ UNCHANGED <<favorites, notes, detail_art_id, clicked, build_state>>

\* render_cards(page_items, allow_compare=True): the checkbox and the buttons
\* of each card, down to the card whose "Remove from my selection" was clicked
RenderCards ==
    /\ pc = "sel_cards"
    /\ IF clicked.w = "remove_card"
       THEN /\ favorites' = PopFavorite(clicked.o)
            /\ cmp' = Pop(WithKeys(CardsDownTo(clicked.o)), clicked.o)
            /\ detail_art_id' = IF detail_art_id = clicked.o THEN NoId ELSE detail_art_id
            /\ notes' = Pop(notes, clicked.o)
            /\ rerun
       ELSE /\ cmp' = WithKeys(FavIds)
            /\ detail_art_id' = IF clicked.w = "detail_btn" THEN clicked.o
                                ELSE detail_art_id
            /\ pc' = "sel_compare"
            /\ UNCHANGED <<favorites, notes, clicked>>
    /\ UNCHANGED <<clear_compare_flag, build_state>>

\* "Clear comparison" under the grid: the flag is set and the script reruns
CompareButtons ==
    /\ pc = "sel_compare"
    /\ IF clicked.w = "clear_compare_grid_btn"
       THEN clear_compare_flag' = TRUE /\ rerun
       ELSE pc' = "sel_detail" /\ UNCHANGED <<clear_compare_flag, clicked>>
    /\ UNCHANGED <<favorites, notes, detail_art_id, cmp, build_state>>

\* the detail view and its three buttons, then the end of the script
DetailView ==
    /\ pc = "sel_detail"
    /\ IF detail_art_id # NoId /\ detail_art_id \in FavIds
       THEN CASE clicked.w = "save_note" ->
                   /\ \E note_text \in NoteTexts :
                        notes' = Put(notes, detail_art_id, note_text)
                   /\ pc' = "idle" /\ clicked' = NoClick
                   /\ UNCHANGED <<favorites, cmp, detail_art_id>>
              [] clicked.w = "remove_detail" ->
                   /\ favorites' = PopFavorite(detail_art_id)
                   /\ cmp' = Pop(cmp, detail_art_id)
                   /\ notes' = Pop(notes, detail_art_id)
                   /\ detail_art_id' = NoId
                   /\ rerun
              [] clicked.w = "close_detail" ->
                   /\ detail_art_id' = NoId
                   /\ rerun
                   /\ UNCHANGED <<favorites, cmp, notes>>
              [] OTHER ->
                   /\ pc' = "idle" /\ clicked' = NoClick
                   /\ UNCHANGED <<favorites, cmp, notes, detail_art_id>>
       ELSE /\ pc' = "idle" /\ clicked' = NoClick
            /\ UNCHANGED <<favorites, cmp, notes, detail_art_id>>
    /\ UNCHANGED <<clear_compare_flag, build_state>>

\* the script of the page run once
Run ==
    \/ SelTop \/ ClearSelection \/ ClearCompareFlag \/ RenderCards
    \/ CompareButtons \/ DetailView

PageNext == ClickButton \/ ToggleCompare \/ Run

PageSpec == PageInit /\ [][PageNext]_vars

\* a script that has started runs to its end
PageFairSpec == PageSpec /\ WF_vars(Run)

\* C29: every key of notes is a key of favorites, after any sequence of
\* removals from a card or from the detail view, of "Clear my entire
\* selection" and of "Save notes", from a state where that is so.
C29_NotesOfFavorites == DOMAIN notes \subseteq FavIds

\* no artwork is selected for comparison
NoneSelected == \A o \in DOMAIN cmp : ~cmp[o]

\* the positions of the script above the creation of the checkboxes
AboveCards == {"sel_top", "sel_clear", "sel_flag"}

====
